---- MODULE Spec2Model ----
(***************************************************************************)
(* The dry-run batch of gitrewrite (internal/commands/run.go): the worker  *)
(* goroutine that walks the history and asks the message-generation        *)
(* collaborator for new messages, the main goroutine that waits for an     *)
(* interrupt signal or for the worker's completion signal, and the journal *)
(* file (the dry-run output file) both of them write with os.WriteFile.    *)
(*                                                                         *)
(* A process invocation is one run; the journal file outlives the process. *)
(* The history of the source repository is not changed by a dry run, so it *)
(* is chosen once.                                                         *)
(***************************************************************************)
EXTENDS Integers, Sequences, FiniteSets, TLC

\* ---- bounds of the model ------------------------------------------------
MaxCommits == 2      \* longest history of the general specification
MaxRuns == 2         \* invocations against the same journal path
LongCommits == 6     \* longest history of the single-run specification
MaxLog == 2          \* longest native log handed to the walker
MaxLen == 2          \* longest commit message and longest patch text, in bytes
StartupCommits == 2  \* longest history of the specification of the start
MaxFiles == 3        \* most files of a commit at the generation step
MaxEntries == 2      \* most entries of a generation response
MaxTodo == 2         \* most lines of an instruction list of a rebase
MaxChanges == 2      \* most changed entries of a commit at the diff extraction
MaxDecisions == 2    \* most decisions appended while the shared list is looked at

\* ---- program constants --------------------------------------------------
SaveEvery == 5       \* run.go:401, ui.ProcessedCommits%5

VARIABLES
    allCommits,                \* []models.CommitOutput, oldest first
    commitsToRewrite,          \* the needs-rewrite subsequence (filtered on resume)
    DryRun,                    \* flag -dry-run
    SummarizeOversizedCommits, \* flag -summarize-oversized
    journal,                   \* the file at outputFilePath
    rewriteOutputs,            \* []models.RewriteOutput of the running process
    processedCommitIDs,        \* ids returned by loadExistingDryRunResults
    ProcessedCommits,          \* ui.ProcessedCommits
    pcMain,                    \* position of the main goroutine / process state
    pcWorker,                  \* position of the worker goroutine
    idx,                       \* index of the worker's range loop over allCommits
    sigs,                      \* the buffered signal channel holds a signal
    done,                      \* the buffered done channel holds a value
    sigData,                   \* the list the interrupt handler passes to the save
    newRepo,                   \* commits applied to the new repository, in order
    run,                       \* number of the current invocation
    \* history variables, read by the properties only
    existingOutputs,           \* what this run loaded from the journal
    journalAtLoad,             \* the journal file as this run found it
    requests,                  \* generation requests sent in this run, per commit
    produced,                  \* decisions produced (appended) in this run
    failures,                  \* a generation failed or a commit was skipped in this run
    applies,                   \* apply attempts made in this run, per commit
    durable,                   \* decisions of the last journal loaded or fully written
    saveErrors,                \* the saves of this run whose os.WriteFile returned an error
    \* the walk of the source history and the replay into the new repository
    walker,                    \* a call of GetCommitsChronological: inputs, position, results
    sourceTrees,               \* the tree of each commit of the source history
    changes,                   \* []models.RewriteOutput read by ApplyChangesMode
    worktree,                  \* the files in the directory of the new repository
    newRepoExists,             \* the directory of the new repository exists
    lastApply,                 \* history: the last call of ApplyCommitToNewRepo
    \* the start of RunApplication, a message generation, a call of RewordCommit
    startup,                   \* flags and environment of the start, and the calls made
    generation,                \* a commit handed to the generation step, and what came of it
    reword,                    \* a call of RewordCommit: inputs, position, effects
    memory                     \* the decision list as the two goroutines share it

vars == << allCommits, commitsToRewrite, DryRun, SummarizeOversizedCommits, journal,
           rewriteOutputs, processedCommitIDs, ProcessedCommits, pcMain, pcWorker,
           idx, sigs, done, sigData, newRepo, run, existingOutputs, journalAtLoad,
           requests, applies, produced, failures, durable,
           saveErrors, walker, sourceTrees, changes, worktree, newRepoExists,
           lastApply, startup, generation, reword, memory >>

\* ---- data -----------------------------------------------------------------

\* A commit of the walk: its id, whether its message is short enough to need a
\* rewrite, and whether it has more files than MaxFilesPerCommit (after the
\* exclude filter). Files are collected for needs-rewrite commits only.
Commit(i, needs, many) == [CommitID |-> i, NeedsRewrite |-> needs, TooManyFiles |-> many]

\* needs-rewrite and too-many-files of a commit: passthrough, normal, oversized.
Shapes == { << FALSE, FALSE >>, << TRUE, FALSE >>, << TRUE, TRUE >> }

\* Histories of exactly n commits; the commit id is the position (ids are hashes,
\* hence distinct).
Histories(n) ==
    { [ i \in 1..n |-> Commit(i, k[i][1], k[i][2]) ] : k \in [1..n -> Shapes] }

\* models.RewriteOutput; OriginalMsg and FilesChanged are functions of the commit.
RewriteOutput(id, msg) == [CommitID |-> id, RewrittenMsg |-> msg, IsApplied |-> FALSE]

Range(s) == { s[i] : i \in 1..Len(s) }

SelectIds(s) == [ i \in 1..Len(s) |-> s[i].CommitID ]

\* ---- the walk of the source history (internal/services/git.go) --------------------

\* A text of n bytes; the bytes are told apart by their position.
Text(n) == [ i \in 1..n |-> i ]

\* The patches of the changes of one commit against its first parent, as
\* patch.String() gives them: none, one, or an empty one followed by a longest one.
PatchLists ==
    { << >> } \cup { << Text(a) >> : a \in 0..MaxLen }
              \cup { << Text(0), Text(MaxLen) >> }

\* A commit as repo.Log yields it: hash, message and the patches of its changes.
LogCommit(hash, msgLen, patches) ==
    [Hash |-> hash, Message |-> Text(msgLen), Patches |-> patches]

\* The native logs of n commits, newest first; the hash of a commit is its
\* chronological position.
Logs(n) ==
    { [ i \in 1..n |-> LogCommit(n + 1 - i, k[i][1], k[i][2]) ] :
        k \in [1..n -> (0..MaxLen) \X PatchLists] }

\* diffContent[:maxDiffLength] panics when maxDiffLength is negative.
SlicePanics(diffContent, maxDiffLength) ==
    Len(diffContent) > maxDiffLength /\ maxDiffLength < 0

\* The patch left whole: not the code's truncation.
TruncateDiff_Uncut(diffContent, maxDiffLength) == diffContent

\* The patch cut by one byte only: not the code's truncation.
TruncateDiff_DropLastByte(diffContent, maxDiffLength) ==
    IF Len(diffContent) > maxDiffLength
    THEN SubSeq(diffContent, 1, Len(diffContent) - 1)
    ELSE diffContent

\* if len(diffContent) > maxDiffLength { diffContent = diffContent[:maxDiffLength] }
TruncateDiff(diffContent, maxDiffLength) ==
    IF Len(diffContent) > maxDiffLength
    THEN SubSeq(diffContent, 1, maxDiffLength)
    ELSE diffContent

\* The classification with a strict comparison: not the code's.
NeedsRewrite_Strict(message, maxMsgLength) == Len(message) < maxMsgLength

\* NeedsRewrite: len(c.Message) <= maxMsgLength
NeedsRewrite(message, maxMsgLength) == Len(message) <= maxMsgLength

\* output.Files of a commit whose diff information is collected: path and cut patch.
FilesOf(c, maxDiffLength) ==
    [ i \in 1..Len(c.Patches) |->
        [Path |-> i, Diff |-> TruncateDiff(c.Patches[i], maxDiffLength)] ]

\* The models.CommitOutput the callback of GetCommitsChronological builds.
CommitOutput(c, maxMsgLength, maxDiffLength) ==
    [CommitID     |-> c.Hash,
     Message      |-> c.Message,
     NeedsRewrite |-> NeedsRewrite(c.Message, maxMsgLength),
     Files        |-> IF NeedsRewrite(c.Message, maxMsgLength)
                      THEN FilesOf(c, maxDiffLength) ELSE << >>]

\* The slices left in their order of appending: not the code's reversal.
reverseCommits_Kept(commits) == commits

\* reverseCommits: the slice end for end.
reverseCommits(commits) ==
    [ i \in 1..Len(commits) |-> commits[Len(commits) + 1 - i] ]

\* The callback panics on some commit of the log.
WalkPanics(log, maxMsgLength, maxDiffLength) ==
    \E i \in 1..Len(log) :
        /\ NeedsRewrite(log[i].Message, maxMsgLength)
        /\ \E j \in 1..Len(log[i].Patches) :
             SlicePanics(log[i].Patches[j], maxDiffLength)

\* GetCommitsChronological: (allCommits, commitsToRewrite), both appended to in log
\* order and reversed afterwards.
GetCommitsChronological(log, maxMsgLength, maxDiffLength) ==
    LET outputs == [ i \in 1..Len(log) |->
                       CommitOutput(log[i], maxMsgLength, maxDiffLength) ]
    IN  << reverseCommits(outputs),
           reverseCommits(SelectSeq(outputs, LAMBDA o : o.NeedsRewrite)) >>

\* GetCommitsToRewrite: the commits with a short message, in log order, without the
\* NeedsRewrite field set.
GetCommitsToRewrite(log, maxMsgLength, maxDiffLength) ==
    LET short == SelectSeq(log, LAMBDA c : Len(c.Message) <= maxMsgLength)
    IN  [ i \in 1..Len(short) |->
            [CommitID     |-> short[i].Hash,
             Message      |-> short[i].Message,
             NeedsRewrite |-> FALSE,
             Files        |-> FilesOf(short[i], maxDiffLength)] ]

\* A call of the walker: its inputs, where it is, and what it returned.
Walk(log, maxMsgLength, maxDiffLength, pc, all, toRewrite) ==
    [log |-> log, maxMsgLength |-> maxMsgLength, maxDiffLength |-> maxDiffLength,
     pc |-> pc, allCommits |-> all, commitsToRewrite |-> toRewrite]

\* No call of the walker is looked at.
NoWalk == Walk(<< >>, 0, 0, "idle", << >>, << >>)

\* The values of -max-length and -max-diff: negative, zero, and below the longest text.
FlagValues == -1..(MaxLen - 1)

\* The names a side of a change can carry: none, or one of two paths.
PathNames == { "", "a", "b" }

\* An object.Change: the entry before the change and the entry after it.
Change(from, to) == [From |-> [Name |-> from], To |-> [Name |-> to]]

\* The changes of a commit against its first parent.
ChangeLists ==
    UNION { [ 1..n -> { Change(f, t) : f, t \in PathNames } ] : n \in 0..MaxChanges }

\* var path string; if change.From.Name != "" { path = change.From.Name } else if
\* change.To.Name != "" { path = change.To.Name } else { continue }: the path of
\* the models.File of a change, "" when the change is passed over.
PathOf(change) ==
    IF change.From.Name # "" THEN change.From.Name
    ELSE IF change.To.Name # "" THEN change.To.Name
    ELSE ""

\* The loop over the changes of one commit: the changes, the cap, the index of the
\* change the loop is at, output.Files so far, and the error the callback returned.
Extraction(changeList, maxDiffLength) ==
    [pc |-> "changes", changes |-> changeList, maxDiffLength |-> maxDiffLength,
     next |-> 1, Files |-> << >>, err |-> "none"]

\* ---- the journal file -------------------------------------------------------
\* kind: "missing"  no file at the path
\*       "syntax"   bytes that are not well-formed JSON (an empty or cut-off file too)
\*       "type"     well-formed JSON whose values do not all fit []RewriteOutput;
\*                  entries are the elements json.Unmarshal decodes anyway
\*       "array"    a JSON array of RewriteOutput objects
\* readable: os.ReadFile succeeds on the file (permissions)
File(kind, entries, readable) == [kind |-> kind, entries |-> entries, readable |-> readable]

\* os.WriteFile opens with O_TRUNC: the file exists and is empty until written.
OpenTruncate(f) == File("syntax", << >>, f.readable)

\* The write of os.WriteFile, at offset 0 of the descriptor opened earlier. When
\* another descriptor has written a longer text since this one truncated the file,
\* the tail of that text stays behind the shorter one: not well-formed JSON.
WriteData(f, data) ==
    IF f.kind = "array" /\ Len(f.entries) > Len(data)
    THEN File("syntax", << >>, f.readable)
    ELSE File("array", data, f.readable)

\* json.Unmarshal(data, &outputs): a syntax error leaves outputs untouched; a value
\* of the wrong type is skipped, the rest is decoded and the error is returned.
Unmarshal(f) ==
    CASE f.kind = "array" -> [err |-> FALSE, outputs |-> f.entries]
      [] f.kind = "type"  -> [err |-> TRUE, outputs |-> f.entries]
      [] OTHER            -> [err |-> TRUE, outputs |-> << >>]

\* loadExistingDryRunResults: (outputs, commitIDs)
loadExistingDryRunResults(f) ==
    IF f.kind = "missing" \/ ~f.readable
    THEN << << >>, << >> >>
    ELSE LET u == Unmarshal(f)
         IN  IF u.err THEN << u.outputs, << >> >>
             ELSE << u.outputs, SelectIds(u.outputs) >>

containsCommitID(ids, id) == \E i \in 1..Len(ids) : ids[i] = id

\* The decisions a reader of the journal file gets.
JournalEntries(f) == IF f.kind = "array" THEN f.entries ELSE << >>

\* The decisions of the last complete journal, after a write that turned file f
\* into file g.
SavedBy(f, g, before) ==
    IF g # f /\ g.kind = "array" THEN Range(g.entries) ELSE before

\* ---- the replay into the new repository (git.go, ApplyCommitToNewRepo) --------------
\* A tree is the set of the files it holds; the directory of the new repository
\* without .git is a set of files too.

\* A commit created in the new repository by git commit.
NewCommit(id, msg, tree) == [CommitID |-> id, Message |-> msg, Tree |-> tree]

\* The tree of HEAD in the new repository; the empty tree before the first commit.
HeadTree(repo) == IF Len(repo) = 0 THEN {} ELSE repo[Len(repo)].Tree

\* The entry of the new repository's directory that holds git's own data; the files
\* of a tree are 1, 2, ...
DotGit == 0

\* The entries of the new repository's directory holding the files given.
Directory(files) == files \cup {DotGit}

\* The removal loop: every entry of the directory but .git is removed.
RemoveAllExceptGit(entries) == { e \in entries : e = DotGit }

\* The copy from the temp directory, which holds the files of the commit's tree.
CopyFiles(entries, tree) == entries \cup tree

\* What a call of ApplyCommitToNewRepo leaves: its error, the cause of the error,
\* the commits it created, the files in the directory, whether .git is still there.
ApplyResult(err, cause, commits, entries) ==
    [err |-> err, cause |-> cause, commits |-> commits,
     worktree |-> entries \ {DotGit}, gitDirKept |-> DotGit \in entries]

\* No call yet.
NoApply == [CommitID |-> 0, err |-> FALSE, cause |-> "none", gitDirKept |-> TRUE]

\* git commit without --allow-empty and without the nothing-to-commit check: a tree
\* equal to HEAD's is an error of the call. Not the code.
ApplyCommitToNewRepo_EmptyIsError(repo, files, tree, commitID, newMessage) ==
    IF tree = HeadTree(repo)
    THEN { ApplyResult(TRUE, "nothing to commit", << >>, Directory(tree)) }
    ELSE { ApplyResult(FALSE, "none", << NewCommit(commitID, newMessage, tree) >>,
                       Directory(tree)) }

\* The files of the tree copied over what the directory holds, nothing removed
\* first. Not the code.
ApplyCommitToNewRepo_KeepsOldFiles(repo, files, tree, commitID, newMessage) ==
    { ApplyResult(FALSE, "none", << NewCommit(commitID, newMessage, tree) >>,
                  CopyFiles(Directory(files), tree)) }

\* ApplyCommitToNewRepo: every way the call can end.
\*   the commit object, its tree, the temp directory or the extraction fails:
\*     the directory is as it was;
\*   ReadDir or a RemoveAll fails: some of the files are gone;
\*   the copy fails: some of the files of the tree are there;
\*   git add -A or git commit fails: the files of the tree are there, no commit;
\*   git commit --allow-empty succeeds, the tree being that of HEAD or not: the
\*     directory holds .git and the files copied after the removal.
ApplyCommitToNewRepo(repo, files, tree, commitID, newMessage) ==
    { ApplyResult(TRUE, "environment", << >>, Directory(f)) : f \in SUBSET files }
    \cup { ApplyResult(TRUE, "environment", << >>,
                       CopyFiles(RemoveAllExceptGit(Directory(files)), f)) :
             f \in SUBSET tree }
    \cup { ApplyResult(FALSE, "none", << NewCommit(commitID, newMessage, tree) >>,
                       CopyFiles(RemoveAllExceptGit(Directory(files)), tree)) }

\* The record of a call that ended with result r.
Applied(commitID, r) ==
    [CommitID |-> commitID, err |-> r.err, cause |-> r.cause, gitDirKept |-> r.gitDirKept]

\* ---- apply-from-file mode (run.go, ApplyChangesMode) ---------------------------------

\* The last index of the list holding an entry for the id.
LastEntryFor(list, id) ==
    CHOOSE k \in 1..Len(list) :
        /\ list[k].CommitID = id
        /\ \A j \in (k + 1)..Len(list) : list[j].CommitID # id

\* Every commit gets its original message: not the code's lookup.
MessageFor_AlwaysOriginal(list, id) == 0

\* newMessage, hasRewrite := rewriteMap[commitID]: the map is filled in list order, a
\* later entry overwriting an earlier one; without an entry the original message (0).
MessageFor(list, id) ==
    IF \E k \in 1..Len(list) : list[k].CommitID = id
    THEN list[LastEntryFor(list, id)].RewrittenMsg
    ELSE 0

\* ---- the start of RunApplication (run.go) -------------------------------------------

\* Not at the start of a process: the state of a process that has walked the history.
NoStartup == [pc |-> "none"]

\* What HEAD of the source repository is: a branch, a detached HEAD, or nothing git
\* can tell ("error": git branch --show-current fails).
Heads == { "main", "feature", "detached", "error" }

\* What git tells about the default branch: origin/HEAD, init.defaultBranch or an
\* existing main or master names it, or nothing does.
Defaults == { "main", "master", "undetermined" }

\* The start of a process: the flags -repo and -apply-changes, what the environment
\* answered so far ("unasked" before the call), and the calls made, in order.
Startup(repoPath, applyChangesFile) ==
    [RepoPath |-> repoPath, ApplyChangesFile |-> applyChangesFile,
     ollama |-> "unasked", head |-> "unasked", defaultBranch |-> "unasked",
     contextSize |-> "unasked", calls |-> << >>]

\* GetCurrentBranchName: the output of git branch --show-current, "main" when the
\* output is empty (a detached HEAD), an error when the command fails.
GetCurrentBranchName(head) ==
    IF head = "error" THEN [name |-> "main", err |-> TRUE]
    ELSE IF head = "detached" THEN [name |-> "main", err |-> FALSE]
    ELSE [name |-> head, err |-> FALSE]

\* GetDefaultBranchName: the name git gives, or an error.
GetDefaultBranchName(default) ==
    IF default = "undetermined" THEN [name |-> "", err |-> TRUE]
    ELSE [name |-> default, err |-> FALSE]

\* The branch check of RunApplication and of ApplyChangesMode: the current branch is
\* known and equals the default branch, which is the current branch when
\* GetDefaultBranchName fails.
BranchVerified(head, default) ==
    LET current       == GetCurrentBranchName(head)
        found         == GetDefaultBranchName(default)
        defaultBranch == IF found.err THEN current.name ELSE found.name
    IN  ~current.err /\ current.name = defaultBranch

\* ---- the generation step (run.go) ---------------------------------------------------

\* No commit is at the generation step.
NoGeneration == [pc |-> "none"]

\* The files of a needs-rewrite commit, each one matching the -exclude pattern or not.
FileLists == UNION { [ 1..n -> BOOLEAN ] : n \in 0..MaxFiles }

\* The values of -max-files tried: a commit can have fewer files, as many, or more.
FileLimits == 1..(MaxFiles - 1)

\* The filter loop: the files whose path the pattern does not match; every file
\* when no pattern is given.
FilteredFiles(files, excludePattern) ==
    IF excludePattern THEN SelectSeq(files, LAMBDA matches : ~matches) ELSE files

\* The ceiling taken as reached by a commit with exactly the limit: not the code.
Oversized_AtLimit(files, maxFilesPerCommit) == Len(files) >= maxFilesPerCommit

\* len(commit.Files) > MaxFilesPerCommit.
Oversized(files, maxFilesPerCommit) == Len(files) > maxFilesPerCommit

\* The byte lengths of the fixed parts of a request: the system prompt, the user
\* preamble and the output schema (scaled down).
FixedBytes == [system |-> 8, preamble |-> 4, schema |-> 4]

\* The byte lengths of the serialized commit tried, and the context windows.
PayloadBytes == { 11, 12, 35, 36 }
ContextWindows == { 8, 16 }

\* The token estimate of a text of the given byte length.
EstimateTokens(bytes) == bytes \div 4

\* The budget check without the response headroom: not the check described.
WouldExceedContextWindow_NoHeadroom(payloadBytes, contextSize) ==
    EstimateTokens(FixedBytes.system) + EstimateTokens(FixedBytes.preamble)
      + EstimateTokens(payloadBytes) + EstimateTokens(FixedBytes.schema) > contextSize

\* The budget check of GenerateNewCommitMessage: the estimates of the four parts
\* plus a quarter of the context window exceed the context window.
WouldExceedContextWindow(payloadBytes, contextSize) ==
    LET estimatedTokens  == EstimateTokens(FixedBytes.system)
                            + EstimateTokens(FixedBytes.preamble)
                            + EstimateTokens(payloadBytes)
                            + EstimateTokens(FixedBytes.schema)
        responseHeadroom == contextSize \div 4
    IN  estimatedTokens + responseHeadroom > contextSize

\* The values of "type" a response entry can carry: the six conventional ones and
\* another.
ResponseTypes == { "feat", "fix", "chore", "docs", "refactor", "perf", "style" }

\* The descriptions of the entries of a response, by position.
Descriptions == << "d1", "d2", "d3", "d4" >>

\* The responses of the model that parse: up to MaxEntries entries.
Responses ==
    UNION { { [ i \in 1..n |-> [type |-> t[i], description |-> Descriptions[i],
                                 affected_app |-> "app"] ] :
                t \in [ 1..n -> ResponseTypes ] } : n \in 0..MaxEntries }

\* The condition of the filter loop on msg["type"].
KeptType(type) ==
    \/ type = "feat"
    \/ type = "fix"
    \/ type = "chore"
    \/ type = "docs"
    \/ type = "refactor"
    \/ type = "perf"

\* fmt.Sprintf("%s: %s (%s)", type, description, affected_app); a text is the
\* sequence of its pieces, a line feed and a carriage return being pieces.
Sprintf(msg) == << msg.type, ": ", msg.description, " (", msg.affected_app, ")" >>

\* strings.Join(lines, sep).
RECURSIVE Join(_, _)
Join(lines, sep) ==
    IF Len(lines) = 0 THEN << >>
    ELSE IF Len(lines) = 1 THEN lines[1]
    ELSE lines[1] \o sep \o Join(Tail(lines), sep)

\* newMessageLines and newMessage of the loop body: the kept entries formatted, in
\* order, joined with "\n\r".
NewMessageLines(messages) ==
    LET kept == SelectSeq(messages, LAMBDA msg : KeptType(msg.type))
    IN  [ i \in 1..Len(kept) |-> Sprintf(kept[i]) ]

BuildNewMessage(messages) == Join(NewMessageLines(messages), << "\n", "\r" >>)

\* A needs-rewrite commit at the top of the loop body, with the flags and the
\* context size of the process.
Generation(files, excludePattern, maxFilesPerCommit, contextSize) ==
    [pc |-> "commit", path |-> "none", Files |-> files,
     excludePattern |-> excludePattern,
     MaxFilesPerCommit |-> maxFilesPerCommit, contextSize |-> contextSize,
     payloadBytes |-> 0, err |-> "none", messages |-> << >>, newMessage |-> << >>,
     normalRequests |-> 0, simplifiedRequests |-> 0, decisions |-> 0,
     errorsLogged |-> 0]

\* ---- RewordCommit (git.go) ----------------------------------------------------------

\* The shared memory of the two goroutines is not looked at.
NoMemory == [pcMain |-> "none"]

\* The words of a slice header.
Words == { "ptr", "len", "cap" }

\* A slice header; the pointer of a nil slice is 0.
Slice(ptr, len, cap) == [ptr |-> ptr, len |-> len, cap |-> cap]

\* What a read past the end of a backing array finds.
Garbage == -1

\* append(rewriteOutputs, rewriteOutput) on the header h with the backing arrays
\* given: the element is written behind the last one when the capacity allows,
\* else a backing array of twice the capacity (of one element for a nil slice) is
\* allocated, the elements are copied to it and the element is written. The
\* arrays afterwards and the header of the result.
GoAppend(arrays, h, d) ==
    IF h.len < h.cap
    THEN [arrays |-> [arrays EXCEPT ![h.ptr][h.len + 1] = d],
          header |-> Slice(h.ptr, h.len + 1, h.cap)]
    ELSE LET newCap == IF h.cap = 0 THEN 1 ELSE 2 * h.cap
             old    == IF h.ptr = 0 THEN << >> ELSE arrays[h.ptr]
             new    == [ i \in 1..newCap |->
                           IF i <= h.len THEN old[i]
                           ELSE IF i = h.len + 1 THEN d ELSE 0 ]
         IN  [arrays |-> Append(arrays, new),
              header |-> Slice(Len(arrays) + 1, h.len + 1, newCap)]

\* What json.MarshalIndent reads through the header it was handed: the first len
\* elements from the pointer on, past the end of the backing array where the
\* length is not that array's.
ElementsRead(arrays, h) ==
    [ i \in 1..h.len |->
        IF i <= Len(arrays[h.ptr]) THEN arrays[h.ptr][i] ELSE Garbage ]

\* The two goroutines of a dry-run batch and the variable rewriteOutputs they
\* share without a lock: the backing arrays, the header in the variable, the
\* worker at its append and the words of the new header it has yet to store, the
\* main goroutine at its select and the words of the header it has loaded for
\* savePartialDryRunResults, and the elements that call has serialized.
Memory ==
    [arrays |-> << >>, rewriteOutputs |-> Slice(0, 0, 0),
     pcWorker |-> "loop", pending |-> Slice(0, 0, 0), toStore |-> {},
     decisions |-> 0,
     pcMain |-> "select", outputs |-> Slice(0, 0, 0), toLoad |-> {},
     data |-> << >>]

\* No call of RewordCommit.
NoReword == [pc |-> "none"]

\* Commit ids are sequences of two hex digits, of which two are tried; an
\* abbreviated id is a non-empty prefix of an id.
HexDigits == { 1, 2 }
FullIds == [ 1..2 -> HexDigits ]
AbbreviatedIds == [ 1..1 -> HexDigits ] \cup FullIds

\* p is a prefix of s.
IsPrefix(p, s) == Len(p) <= Len(s) /\ SubSeq(s, 1, Len(p)) = p

\* A line of the instruction list: its command and the id that follows it.
TodoLine(command, id) == [command |-> command, id |-> id]

\* The instruction lists handed to the sequence editor: up to MaxTodo lines with
\* distinct ids, each a pick or another command.
TodoLists ==
    { t \in UNION { [ 1..n -> { TodoLine(c, i) : c \in { "pick", "drop" },
                                                 i \in AbbreviatedIds } ] :
                      n \in 0..MaxTodo } :
        \A i, j \in 1..Len(t) : i # j => t[i].id # t[j].id }

\* The sed expression s/^pick \(<target>\|<short>\)/reword \1/ matches a line: the
\* line starts with "pick " and what follows starts with the target as given or
\* with its abbreviated hash.
SedMatches(line, targetCommit, shortHash) ==
    /\ line.command = "pick"
    /\ \/ IsPrefix(targetCommit, line.id)
       \/ IsPrefix(shortHash, line.id)

\* sed -i -e <expression> on the instruction list: a matching line gets reword for
\* pick and keeps the rest, the other lines are as they were.
SequenceEditor(todo, targetCommit, shortHash) ==
    [ i \in 1..Len(todo) |->
        IF SedMatches(todo[i], targetCommit, shortHash)
        THEN TodoLine("reword", todo[i].id)
        ELSE todo[i] ]

\* The rewrite state an earlier, unfinished rebase has left in the repository.
PriorStates == { "none", "rebase-merge", "rebase-apply" }

\* A call RewordCommit(repoPath, targetCommit, newMessage) on a repository with
\* some rewrite state, and the instruction list git will hand to the sequence
\* editor; the phases and the commands of the call so far.
Reword(targetCommit, priorState, todo) ==
    [pc |-> "idle", targetCommit |-> targetCommit, shortHash |-> << >>,
     priorState |-> priorState, todo |-> todo, edited |-> << >>, transformed |-> FALSE,
     err |-> "none", output |-> "none", detail |-> "none", commands |-> << >>,
     phases |-> << "Idle" >>]

\* What git rebase -i prints, on stdout and stderr together, when it exits non-zero.
RebaseOutputs == { "could not apply", "invalid upstream" }

\* ---- a process invocation -----------------------------------------------------

\* GetCommitsChronological's second result: the needs-rewrite subsequence.
NeedsRewriteOf(commits) == SelectSeq(commits, LAMBDA c : c.NeedsRewrite)

\* The filter of the resume block: the candidates whose id was not loaded.
RemainingCommits(commits, ids) ==
    SelectSeq(commits, LAMBDA c : ~containsCommitID(ids, c.CommitID))

\* The message the collaborator returns in invocation r (responses of different
\* invocations differ; 0 is the message of an entry that was in the file at the start).
NewMessage(r) == r

ZeroCounts == [ i \in 1..Len(allCommits) |-> 0 ]

\* The journal files a first invocation can find at outputFilePath.
InitialJournals ==
    { File("missing", << >>, TRUE),
      File("syntax", << >>, TRUE),
      File("syntax", << >>, FALSE),
      File("type", << RewriteOutput(1, 0) >>, TRUE) }

\* The volatile state of a process that has just walked the history.
ProcessStart ==
    /\ commitsToRewrite = NeedsRewriteOf(allCommits)
    /\ rewriteOutputs = << >>
    /\ processedCommitIDs = << >>
    /\ ProcessedCommits = 0
    /\ pcMain = "load"
    /\ pcWorker = "idle"
    /\ idx = 1
    /\ sigs = FALSE
    /\ done = FALSE
    /\ sigData = << >>
    /\ existingOutputs = << >>
    /\ requests = ZeroCounts
    /\ applies = ZeroCounts
    /\ produced = << >>
    /\ failures = FALSE
    /\ saveErrors = {}

NoJournal == { File("missing", << >>, TRUE) }

InitWith(histories, modes, journals) ==
    /\ allCommits \in histories
    /\ DryRun \in modes
    /\ SummarizeOversizedCommits \in BOOLEAN
    /\ journal \in (IF DryRun THEN journals ELSE NoJournal)
    /\ journalAtLoad = journal
    /\ newRepo = << >>
    /\ run = 1
    /\ durable = {}
    /\ ProcessStart
    /\ walker = NoWalk
    /\ sourceTrees = [ i \in 1..Len(allCommits) |-> {i} ]
    /\ changes = << >>
    /\ worktree = {}
    /\ newRepoExists = ~DryRun
    /\ lastApply = NoApply
    /\ startup = NoStartup
    /\ generation = NoGeneration
    /\ reword = NoReword
    /\ memory = NoMemory

Init == InitWith(UNION { Histories(n) : n \in 1..MaxCommits }, BOOLEAN, InitialJournals)

Alive == pcMain \in {"select", "sigOpen", "sigWrite", "sigStop", "waiting"}

\* ---- the main goroutine -------------------------------------------------------

\* RunApplication, from the resume block to the go statement (dry run), or from the
\* confirmation dialog answered Yes to the go statement.
StartBatch ==
    /\ pcMain = "load"
    /\ LET loaded   == IF DryRun THEN loadExistingDryRunResults(journal)
                       ELSE << << >>, << >> >>
           existing == loaded[1]
           ids      == loaded[2]
       IN  /\ existingOutputs' = existing
           /\ processedCommitIDs' = ids
           /\ IF Len(existing) > 0
              THEN /\ rewriteOutputs' = existing
                   /\ commitsToRewrite' = RemainingCommits(commitsToRewrite, ids)
                   /\ ProcessedCommits' = Len(existing)
              ELSE UNCHANGED << rewriteOutputs, commitsToRewrite, ProcessedCommits >>
    /\ journalAtLoad' = journal
    /\ durable' = Range(JournalEntries(journal))
    /\ pcMain' = "select"
    /\ pcWorker' = "loop"
    /\ UNCHANGED << startup, generation, reword, memory, walker, sourceTrees, changes, worktree, newRepoExists, lastApply,
                    allCommits, DryRun, SummarizeOversizedCommits, journal, idx, sigs,
                    done, sigData, newRepo, run, requests, applies, produced, failures,
                    saveErrors >>

\* The confirmation dialog answered No: os.Exit(0) before any commit is processed.
DeclineConfirmation ==
    /\ pcMain = "load"
    /\ ~DryRun
    /\ pcMain' = "exited"
    /\ UNCHANGED << startup, generation, reword, memory, walker, sourceTrees, changes, worktree, newRepoExists, lastApply,
                    allCommits, commitsToRewrite, DryRun, SummarizeOversizedCommits,
                    journal, rewriteOutputs, processedCommitIDs, ProcessedCommits,
                    pcWorker, idx, sigs, done, sigData, newRepo, run, existingOutputs,
                    journalAtLoad, requests, applies, produced, failures,
                    durable,
                    saveErrors >>

\* case <-sigs: the handler reads rewriteOutputs and, in a dry run with at least one
\* decision, calls savePartialDryRunResults with it.
HandleInterrupt ==
    /\ pcMain = "select"
    /\ sigs
    /\ sigs' = FALSE
    /\ IF DryRun /\ Len(rewriteOutputs) > 0
       THEN /\ sigData' = rewriteOutputs
            /\ pcMain' = "sigOpen"
       ELSE /\ sigData' = sigData
            /\ pcMain' = "sigStop"
    /\ UNCHANGED << startup, generation, reword, memory, walker, sourceTrees, changes, worktree, newRepoExists, lastApply,
                    allCommits, commitsToRewrite, DryRun, SummarizeOversizedCommits,
                    journal, rewriteOutputs, processedCommitIDs, ProcessedCommits,
                    pcWorker, idx, done, newRepo, run, existingOutputs, journalAtLoad,
                    requests, applies, produced, failures, durable,
                    saveErrors >>

\* savePartialDryRunResults in the handler: os.WriteFile opens the file, or fails to
\* (the error is logged and the handler goes on to exit).
InterruptOpen ==
    /\ pcMain = "sigOpen"
    /\ \E ok \in BOOLEAN :
         IF ok
         THEN /\ journal' = OpenTruncate(journal)
              /\ pcMain' = "sigWrite"
              /\ saveErrors' = saveErrors
         ELSE /\ journal' = journal
              /\ pcMain' = "sigStop"
              /\ saveErrors' = saveErrors \cup {"interrupt"}
    /\ UNCHANGED << startup, generation, reword, memory, walker, sourceTrees, changes, worktree, newRepoExists, lastApply,
                    allCommits, commitsToRewrite, DryRun, SummarizeOversizedCommits,
                    rewriteOutputs, processedCommitIDs, ProcessedCommits, pcWorker, idx,
                    sigs, done, sigData, newRepo, run, existingOutputs, journalAtLoad,
                    requests, applies, produced, failures, durable >>

\* savePartialDryRunResults in the handler: os.WriteFile writes the data, or fails to.
InterruptWrite ==
    /\ pcMain = "sigWrite"
    /\ \E ok \in BOOLEAN :
         /\ journal' = IF ok THEN WriteData(journal, sigData) ELSE journal
         /\ saveErrors' = IF ok THEN saveErrors ELSE saveErrors \cup {"interrupt"}
    /\ durable' = SavedBy(journal, journal', durable)
    /\ pcMain' = "sigStop"
    /\ UNCHANGED << startup, generation, reword, memory, walker, sourceTrees, changes, worktree, newRepoExists, lastApply,
                    allCommits, commitsToRewrite, DryRun, SummarizeOversizedCommits,
                    rewriteOutputs, processedCommitIDs, ProcessedCommits, pcWorker, idx,
                    sigs, done, sigData, newRepo, run, existingOutputs, journalAtLoad,
                    requests, applies, produced, failures >>

\* ui.App.Stop(); os.Exit(0): the process, worker included, is gone.
InterruptExit ==
    /\ pcMain = "sigStop"
    /\ pcMain' = "exited"
    /\ UNCHANGED << startup, generation, reword, memory, walker, sourceTrees, changes, worktree, newRepoExists, lastApply,
                    allCommits, commitsToRewrite, DryRun, SummarizeOversizedCommits,
                    journal, rewriteOutputs, processedCommitIDs, ProcessedCommits,
                    pcWorker, idx, sigs, done, sigData, newRepo, run, existingOutputs,
                    journalAtLoad, requests, applies, produced, failures,
                    durable,
                    saveErrors >>

\* case <-done: the main goroutine blocks in select {} from here on.
ObserveDone ==
    /\ pcMain = "select"
    /\ done
    /\ done' = FALSE
    /\ pcMain' = "waiting"
    /\ UNCHANGED << startup, generation, reword, memory, walker, sourceTrees, changes, worktree, newRepoExists, lastApply,
                    allCommits, commitsToRewrite, DryRun, SummarizeOversizedCommits,
                    journal, rewriteOutputs, processedCommitIDs, ProcessedCommits,
                    pcWorker, idx, sigs, sigData, newRepo, run, existingOutputs,
                    journalAtLoad, requests, applies, produced, failures,
                    durable,
                    saveErrors >>

\* ---- the worker goroutine ------------------------------------------------------
\* for _, commit := range allCommits { ... }; done <- true

AtCommit == Alive /\ pcWorker = "loop" /\ idx <= Len(allCommits)

Bump(f, i) == [f EXCEPT ![i] = @ + 1]

\* The commit is handed to the collaborator when the loop reaches it: it needs a
\* rewrite and has at most MaxFilesPerCommit files or -summarize-oversized is set.
Processable(c) ==
    c.NeedsRewrite /\ (~c.TooManyFiles \/ SummarizeOversizedCommits)

\* A commit that needs no rewrite, in a dry run: counted, nothing else.
PassThroughDryRun ==
    /\ AtCommit
    /\ ~allCommits[idx].NeedsRewrite
    /\ DryRun
    /\ ProcessedCommits' = ProcessedCommits + 1
    /\ idx' = idx + 1
    /\ UNCHANGED << startup, generation, reword, memory, walker, sourceTrees, changes, worktree, newRepoExists, lastApply,
                    allCommits, commitsToRewrite, DryRun, SummarizeOversizedCommits,
                    journal, rewriteOutputs, processedCommitIDs, pcMain, pcWorker, sigs,
                    done, sigData, newRepo, run, existingOutputs, journalAtLoad,
                    requests, applies, produced, failures, durable,
                    saveErrors >>

\* A commit that needs no rewrite, in a replay: applied with its original message
\* (message 0); a failed apply is logged and the commit is not counted.
ApplyOriginal ==
    /\ AtCommit
    /\ ~allCommits[idx].NeedsRewrite
    /\ ~DryRun
    /\ applies' = Bump(applies, idx)
    /\ \E r \in ApplyCommitToNewRepo(newRepo, worktree, sourceTrees[idx],
                                     allCommits[idx].CommitID, 0) :
         /\ newRepo' = newRepo \o r.commits
         /\ worktree' = r.worktree
         /\ lastApply' = Applied(allCommits[idx].CommitID, r)
         /\ ProcessedCommits' = IF r.err THEN ProcessedCommits ELSE ProcessedCommits + 1
    /\ idx' = idx + 1
    /\ UNCHANGED << startup, generation, reword, memory, walker, sourceTrees, changes, newRepoExists,
                    allCommits, commitsToRewrite, DryRun, SummarizeOversizedCommits,
                    journal, rewriteOutputs, processedCommitIDs, pcMain, pcWorker, sigs,
                    done, sigData, run, existingOutputs, journalAtLoad, requests,
                    produced, failures, durable,
                    saveErrors >>

\* More files than MaxFilesPerCommit and no -summarize-oversized: logged and skipped.
SkipOversized ==
    /\ AtCommit
    /\ allCommits[idx].NeedsRewrite
    /\ allCommits[idx].TooManyFiles
    /\ ~SummarizeOversizedCommits
    /\ idx' = idx + 1
    /\ failures' = TRUE
    /\ UNCHANGED << startup, generation, reword, memory, walker, sourceTrees, changes, worktree, newRepoExists, lastApply,
                    allCommits, commitsToRewrite, DryRun, SummarizeOversizedCommits,
                    journal, rewriteOutputs, processedCommitIDs, ProcessedCommits, pcMain,
                    pcWorker, sigs, done, sigData, newRepo, run, existingOutputs,
                    journalAtLoad, requests, applies, produced, durable,
                    saveErrors >>

\* GenerateNewCommitMessage or GenerateSimplifiedCommitMessage is called: the request
\* is with the collaborator until it answers.
SendRequest ==
    /\ AtCommit
    /\ Processable(allCommits[idx])
    /\ requests' = Bump(requests, idx)
    /\ pcWorker' = "generating"
    /\ UNCHANGED << startup, generation, reword, memory, walker, sourceTrees, changes, worktree, newRepoExists, lastApply,
                    allCommits, commitsToRewrite, DryRun, SummarizeOversizedCommits,
                    journal, rewriteOutputs, processedCommitIDs, ProcessedCommits, pcMain,
                    idx, sigs, done, sigData, newRepo, run, existingOutputs,
                    journalAtLoad, applies, produced, failures, durable,
                    saveErrors >>

\* The call returns an error: logged, continue.
GenerationFails ==
    /\ Alive
    /\ pcWorker = "generating"
    /\ pcWorker' = "loop"
    /\ idx' = idx + 1
    /\ failures' = TRUE
    /\ UNCHANGED << startup, generation, reword, memory, walker, sourceTrees, changes, worktree, newRepoExists, lastApply,
                    allCommits, commitsToRewrite, DryRun, SummarizeOversizedCommits,
                    journal, rewriteOutputs, processedCommitIDs, ProcessedCommits, pcMain,
                    sigs, done, sigData, newRepo, run, existingOutputs, journalAtLoad,
                    requests, applies, produced, durable,
                    saveErrors >>

\* The call returns a message, in a dry run: the decision is appended; on the normal
\* path the list is saved when the counter, not yet incremented, is a multiple of 5.
GenerationReturnsDryRun ==
    /\ Alive
    /\ pcWorker = "generating"
    /\ DryRun
    /\ LET d == RewriteOutput(allCommits[idx].CommitID, NewMessage(run))
       IN  /\ rewriteOutputs' = Append(rewriteOutputs, d)
           /\ produced' = Append(produced, d)
    /\ IF ~allCommits[idx].TooManyFiles /\ ProcessedCommits % SaveEvery = 0
       THEN /\ pcWorker' = "periodicOpen"
            /\ UNCHANGED << ProcessedCommits, idx >>
       ELSE /\ pcWorker' = "loop"
            /\ ProcessedCommits' = ProcessedCommits + 1
            /\ idx' = idx + 1
    /\ UNCHANGED << startup, generation, reword, memory, walker, sourceTrees, changes, worktree, newRepoExists, lastApply,
                    allCommits, commitsToRewrite, DryRun, SummarizeOversizedCommits,
                    journal, processedCommitIDs, pcMain, sigs, done, sigData, newRepo,
                    run, existingOutputs, journalAtLoad, requests, applies, failures, durable,
                    saveErrors >>

\* The call returns a message, in a replay: the commit is applied with it; a failed
\* apply is logged and the commit is not counted.
GenerationReturnsApply ==
    /\ Alive
    /\ pcWorker = "generating"
    /\ ~DryRun
    /\ applies' = Bump(applies, idx)
    /\ \E r \in ApplyCommitToNewRepo(newRepo, worktree, sourceTrees[idx],
                                     allCommits[idx].CommitID, NewMessage(run)) :
         /\ newRepo' = newRepo \o r.commits
         /\ worktree' = r.worktree
         /\ lastApply' = Applied(allCommits[idx].CommitID, r)
         /\ ProcessedCommits' = IF r.err THEN ProcessedCommits ELSE ProcessedCommits + 1
    /\ pcWorker' = "loop"
    /\ idx' = idx + 1
    /\ UNCHANGED << startup, generation, reword, memory, walker, sourceTrees, changes, newRepoExists,
                    allCommits, commitsToRewrite, DryRun, SummarizeOversizedCommits,
                    journal, rewriteOutputs, processedCommitIDs, pcMain, sigs, done,
                    sigData, run, existingOutputs, journalAtLoad, requests, produced,
                    failures, durable,
                    saveErrors >>

\* savePartialDryRunResults in the loop: os.WriteFile opens the file, or fails to
\* (the error is logged, the commit is counted and the loop goes on).
PeriodicOpen ==
    /\ Alive
    /\ pcWorker = "periodicOpen"
    /\ \E ok \in BOOLEAN :
         IF ok
         THEN /\ journal' = OpenTruncate(journal)
              /\ pcWorker' = "periodicWrite"
              /\ UNCHANGED << ProcessedCommits, idx, saveErrors >>
         ELSE /\ journal' = journal
              /\ pcWorker' = "loop"
              /\ ProcessedCommits' = ProcessedCommits + 1
              /\ idx' = idx + 1
              /\ saveErrors' = saveErrors \cup {"periodic"}
    /\ UNCHANGED << startup, generation, reword, memory, walker, sourceTrees, changes, worktree, newRepoExists, lastApply,
                    allCommits, commitsToRewrite, DryRun, SummarizeOversizedCommits,
                    rewriteOutputs, processedCommitIDs, pcMain, sigs, done, sigData,
                    newRepo, run, existingOutputs, journalAtLoad, requests, applies,
                    produced, failures, durable >>

\* savePartialDryRunResults in the loop: os.WriteFile writes the data, or fails to;
\* then the commit is counted.
PeriodicWrite ==
    /\ Alive
    /\ pcWorker = "periodicWrite"
    /\ \E ok \in BOOLEAN :
         /\ journal' = IF ok THEN WriteData(journal, rewriteOutputs) ELSE journal
         /\ saveErrors' = IF ok THEN saveErrors ELSE saveErrors \cup {"periodic"}
    /\ durable' = SavedBy(journal, journal', durable)
    /\ pcWorker' = "loop"
    /\ ProcessedCommits' = ProcessedCommits + 1
    /\ idx' = idx + 1
    /\ UNCHANGED << startup, generation, reword, memory, walker, sourceTrees, changes, worktree, newRepoExists, lastApply,
                    allCommits, commitsToRewrite, DryRun, SummarizeOversizedCommits,
                    rewriteOutputs, processedCommitIDs, pcMain, sigs, done, sigData,
                    newRepo, run, existingOutputs, journalAtLoad, requests, applies,
                    produced, failures >>

AfterLoop == Alive /\ pcWorker = "loop" /\ idx > Len(allCommits)

\* FinalOpen with the completion signal sent before the file is written.
FinalOpen_DoneFirst ==
    /\ AfterLoop
    /\ DryRun /\ Len(rewriteOutputs) > 0
    /\ \E ok \in BOOLEAN :
         IF ok
         THEN /\ journal' = OpenTruncate(journal)
              /\ pcWorker' = "finalWrite"
              /\ saveErrors' = saveErrors
         ELSE /\ journal' = journal
              /\ pcWorker' = "sendDone"
              /\ saveErrors' = saveErrors \cup {"final"}
    /\ done' = TRUE
    /\ UNCHANGED << startup, generation, reword, memory, walker, sourceTrees, changes, worktree, newRepoExists, lastApply,
                    allCommits, commitsToRewrite, DryRun, SummarizeOversizedCommits,
                    rewriteOutputs, processedCommitIDs, ProcessedCommits, pcMain, idx,
                    sigs, sigData, newRepo, run, existingOutputs, journalAtLoad,
                    requests, applies, produced, failures, durable >>

\* After the loop, a dry run with at least one decision: os.WriteFile opens the file,
\* or fails to (the error is logged and the worker goes on to done <- true).
FinalOpen ==
    /\ AfterLoop
    /\ DryRun /\ Len(rewriteOutputs) > 0
    /\ \E ok \in BOOLEAN :
         IF ok
         THEN /\ journal' = OpenTruncate(journal)
              /\ pcWorker' = "finalWrite"
              /\ saveErrors' = saveErrors
         ELSE /\ journal' = journal
              /\ pcWorker' = "sendDone"
              /\ saveErrors' = saveErrors \cup {"final"}
    /\ UNCHANGED << startup, generation, reword, memory, walker, sourceTrees, changes, worktree, newRepoExists, lastApply,
                    allCommits, commitsToRewrite, DryRun, SummarizeOversizedCommits,
                    rewriteOutputs, processedCommitIDs, ProcessedCommits, pcMain, idx,
                    sigs, done, sigData, newRepo, run, existingOutputs, journalAtLoad,
                    requests, applies, produced, failures, durable >>

\* After the loop: os.WriteFile writes the data, or fails to.
FinalWrite ==
    /\ Alive
    /\ pcWorker = "finalWrite"
    /\ \E ok \in BOOLEAN :
         /\ journal' = IF ok THEN WriteData(journal, rewriteOutputs) ELSE journal
         /\ saveErrors' = IF ok THEN saveErrors ELSE saveErrors \cup {"final"}
    /\ durable' = SavedBy(journal, journal', durable)
    /\ pcWorker' = "sendDone"
    /\ UNCHANGED << startup, generation, reword, memory, walker, sourceTrees, changes, worktree, newRepoExists, lastApply,
                    allCommits, commitsToRewrite, DryRun, SummarizeOversizedCommits,
                    rewriteOutputs, processedCommitIDs, ProcessedCommits, pcMain, idx,
                    sigs, done, sigData, newRepo, run, existingOutputs, journalAtLoad,
                    requests, applies, produced, failures >>

\* After the loop, nothing to save: a replay, or a dry run without any decision.
SkipFinalSave ==
    /\ AfterLoop
    /\ ~(DryRun /\ Len(rewriteOutputs) > 0)
    /\ pcWorker' = "sendDone"
    /\ UNCHANGED << startup, generation, reword, memory, walker, sourceTrees, changes, worktree, newRepoExists, lastApply,
                    allCommits, commitsToRewrite, DryRun, SummarizeOversizedCommits,
                    journal, rewriteOutputs, processedCommitIDs, ProcessedCommits, pcMain,
                    idx, sigs, done, sigData, newRepo, run, existingOutputs,
                    journalAtLoad, requests, applies, produced, failures,
                    durable,
                    saveErrors >>

\* done <- true (the channel has room for it).
SendDone ==
    /\ Alive
    /\ pcWorker = "sendDone"
    /\ done' = TRUE
    /\ pcWorker' = "finished"
    /\ UNCHANGED << startup, generation, reword, memory, walker, sourceTrees, changes, worktree, newRepoExists, lastApply,
                    allCommits, commitsToRewrite, DryRun, SummarizeOversizedCommits,
                    journal, rewriteOutputs, processedCommitIDs, ProcessedCommits, pcMain,
                    idx, sigs, sigData, newRepo, run, existingOutputs, journalAtLoad,
                    requests, applies, produced, failures, durable,
                    saveErrors >>

\* ---- apply-from-file mode: the main goroutine in ApplyChangesMode --------------------

\* The mode runs in the main goroutine, before the signal handler is installed.

\* ApplyChangesMode up to its loop, the confirmation dialog answered Yes: the changes
\* file is read and parsed (an error is returned to RunApplication, which blocks in
\* select {}), the new repository is created (log.Fatalf when the directory exists),
\* the history is walked and the counter reset.
StartApplyChanges ==
    /\ pcMain = "applyStart"
    /\ IF journal.kind = "missing" \/ ~journal.readable \/ Unmarshal(journal).err
       THEN /\ pcMain' = "applyFailed"
            /\ UNCHANGED << changes, newRepoExists, worktree, ProcessedCommits >>
       ELSE IF newRepoExists
       THEN /\ pcMain' = "exited"
            /\ changes' = Unmarshal(journal).outputs
            /\ UNCHANGED << newRepoExists, worktree, ProcessedCommits >>
       ELSE /\ pcMain' = "applyLoop"
            /\ changes' = Unmarshal(journal).outputs
            /\ newRepoExists' = TRUE
            /\ worktree' = {}
            /\ ProcessedCommits' = 0
    /\ UNCHANGED << startup, generation, reword, memory, allCommits, commitsToRewrite, DryRun, SummarizeOversizedCommits,
                    journal, rewriteOutputs, processedCommitIDs, pcWorker, idx, sigs,
                    done, sigData, newRepo, run, existingOutputs, journalAtLoad,
                    requests, applies, produced, failures, durable, saveErrors, walker,
                    sourceTrees, lastApply >>

\* The same, the confirmation dialog answered No: os.Exit(0) with the new repository
\* created and empty.
DeclineApplyChanges ==
    /\ pcMain = "applyStart"
    /\ ~(journal.kind = "missing" \/ ~journal.readable \/ Unmarshal(journal).err)
    /\ ~newRepoExists
    /\ Len(allCommits) > 0
    /\ pcMain' = "exited"
    /\ changes' = Unmarshal(journal).outputs
    /\ newRepoExists' = TRUE
    /\ worktree' = {}
    /\ ProcessedCommits' = 0
    /\ UNCHANGED << startup, generation, reword, memory, allCommits, commitsToRewrite, DryRun, SummarizeOversizedCommits,
                    journal, rewriteOutputs, processedCommitIDs, pcWorker, idx, sigs,
                    done, sigData, newRepo, run, existingOutputs, journalAtLoad,
                    requests, applies, produced, failures, durable, saveErrors, walker,
                    sourceTrees, lastApply >>

\* The loop taken from the newest commit to the oldest: not the code.
ApplyChange_NewestFirst ==
    /\ pcMain = "applyLoop"
    /\ idx <= Len(allCommits)
    /\ LET i      == Len(allCommits) + 1 - idx
           commit == allCommits[i]
       IN  /\ applies' = Bump(applies, i)
           /\ \E r \in ApplyCommitToNewRepo(newRepo, worktree, sourceTrees[i],
                                           commit.CommitID,
                                           MessageFor(changes, commit.CommitID)) :
                /\ newRepo' = newRepo \o r.commits
                /\ worktree' = r.worktree
                /\ lastApply' = Applied(commit.CommitID, r)
                /\ ProcessedCommits' = IF r.err THEN ProcessedCommits
                                       ELSE ProcessedCommits + 1
                /\ pcMain' = "applyLoop"
    /\ idx' = idx + 1
    /\ UNCHANGED << startup, generation, reword, memory, allCommits, commitsToRewrite, DryRun, SummarizeOversizedCommits,
                    journal, rewriteOutputs, processedCommitIDs, pcWorker, sigs, done,
                    sigData, run, existingOutputs, journalAtLoad, requests, produced,
                    failures, durable, saveErrors, walker, sourceTrees, changes,
                    newRepoExists >>

\* The loop left at the first failed apply: not the code.
ApplyChange_StopOnError ==
    /\ pcMain = "applyLoop"
    /\ idx <= Len(allCommits)
    /\ LET i      == idx
           commit == allCommits[i]
       IN  /\ applies' = Bump(applies, i)
           /\ \E r \in ApplyCommitToNewRepo(newRepo, worktree, sourceTrees[i],
                                           commit.CommitID,
                                           MessageFor(changes, commit.CommitID)) :
                /\ newRepo' = newRepo \o r.commits
                /\ worktree' = r.worktree
                /\ lastApply' = Applied(commit.CommitID, r)
                /\ ProcessedCommits' = IF r.err THEN ProcessedCommits
                                       ELSE ProcessedCommits + 1
                /\ pcMain' = IF r.err THEN "applyFailed" ELSE "applyLoop"
    /\ idx' = idx + 1
    /\ UNCHANGED << startup, generation, reword, memory, allCommits, commitsToRewrite, DryRun, SummarizeOversizedCommits,
                    journal, rewriteOutputs, processedCommitIDs, pcWorker, sigs, done,
                    sigData, run, existingOutputs, journalAtLoad, requests, produced,
                    failures, durable, saveErrors, walker, sourceTrees, changes,
                    newRepoExists >>

\* One pass of the loop over allCommits: the message is looked up, the commit is
\* applied; a failed apply is logged and the loop continues with the next commit.
ApplyChange ==
    /\ pcMain = "applyLoop"
    /\ idx <= Len(allCommits)
    /\ LET i      == idx
           commit == allCommits[i]
       IN  /\ applies' = Bump(applies, i)
           /\ \E r \in ApplyCommitToNewRepo(newRepo, worktree, sourceTrees[i],
                                           commit.CommitID,
                                           MessageFor(changes, commit.CommitID)) :
                /\ newRepo' = newRepo \o r.commits
                /\ worktree' = r.worktree
                /\ lastApply' = Applied(commit.CommitID, r)
                /\ ProcessedCommits' = IF r.err THEN ProcessedCommits
                                       ELSE ProcessedCommits + 1
                /\ pcMain' = "applyLoop"
    /\ idx' = idx + 1
    /\ UNCHANGED << startup, generation, reword, memory, allCommits, commitsToRewrite, DryRun, SummarizeOversizedCommits,
                    journal, rewriteOutputs, processedCommitIDs, pcWorker, sigs, done,
                    sigData, run, existingOutputs, journalAtLoad, requests, produced,
                    failures, durable, saveErrors, walker, sourceTrees, changes,
                    newRepoExists >>

\* The loop is over: ApplyChangesMode returns nil and RunApplication blocks in select {}.
ApplyChangesDone ==
    /\ pcMain = "applyLoop"
    /\ idx > Len(allCommits)
    /\ pcMain' = "applyDone"
    /\ UNCHANGED << startup, generation, reword, memory, allCommits, commitsToRewrite, DryRun, SummarizeOversizedCommits,
                    journal, rewriteOutputs, processedCommitIDs, ProcessedCommits,
                    pcWorker, idx, sigs, done, sigData, newRepo, run, existingOutputs,
                    journalAtLoad, requests, applies, produced, failures, durable,
                    saveErrors, walker, sourceTrees, changes, worktree, newRepoExists,
                    lastApply >>

\* The process in apply-from-file mode is ended from outside (Ctrl+C in the terminal
\* UI, a kill): nothing of it is left but the new repository.
KillApplyChanges ==
    /\ pcMain \in {"applyLoop", "applyDone", "applyFailed"}
    /\ pcMain' = "crashed"
    /\ changes' = << >>
    /\ idx' = 1
    /\ ProcessedCommits' = 0
    /\ applies' = ZeroCounts
    /\ UNCHANGED << startup, generation, reword, memory, allCommits, commitsToRewrite, DryRun, SummarizeOversizedCommits,
                    journal, rewriteOutputs, processedCommitIDs, pcWorker, sigs, done,
                    sigData, newRepo, run, existingOutputs, journalAtLoad, requests,
                    produced, failures, durable, saveErrors, walker, sourceTrees,
                    worktree, newRepoExists, lastApply >>

\* The program is invoked with -apply-changes on the journal path, after an earlier
\* process has ended.
InvokeApplyChanges ==
    /\ pcMain \in {"exited", "crashed"}
    /\ pcMain' = "applyStart"
    /\ commitsToRewrite' = NeedsRewriteOf(allCommits)
    /\ rewriteOutputs' = << >>
    /\ processedCommitIDs' = << >>
    /\ ProcessedCommits' = 0
    /\ pcWorker' = "idle"
    /\ idx' = 1
    /\ sigs' = FALSE
    /\ done' = FALSE
    /\ sigData' = << >>
    /\ existingOutputs' = << >>
    /\ requests' = ZeroCounts
    /\ applies' = ZeroCounts
    /\ produced' = << >>
    /\ failures' = FALSE
    /\ saveErrors' = {}
    /\ changes' = << >>
    /\ UNCHANGED << startup, generation, reword, memory, allCommits, DryRun, SummarizeOversizedCommits, journal, newRepo,
                    run, journalAtLoad, durable, walker, sourceTrees, worktree,
                    newRepoExists, lastApply >>

\* ---- the environment ------------------------------------------------------------

\* SIGINT or SIGTERM is delivered to the process: signal.Notify puts it in sigs.
Signal ==
    /\ pcMain \in {"select", "waiting"}
    /\ ~sigs
    /\ sigs' = TRUE
    /\ UNCHANGED << startup, generation, reword, memory, walker, sourceTrees, changes, worktree, newRepoExists, lastApply,
                    allCommits, commitsToRewrite, DryRun, SummarizeOversizedCommits,
                    journal, rewriteOutputs, processedCommitIDs, ProcessedCommits, pcMain,
                    pcWorker, idx, done, sigData, newRepo, run, existingOutputs,
                    journalAtLoad, requests, applies, produced, failures,
                    durable,
                    saveErrors >>

\* The process is killed or the machine stops: no handler runs, and nothing of the
\* process is left but the files it wrote.
Crash ==
    /\ Alive
    /\ pcMain' = "crashed"
    /\ commitsToRewrite' = NeedsRewriteOf(allCommits)
    /\ rewriteOutputs' = << >>
    /\ processedCommitIDs' = << >>
    /\ ProcessedCommits' = 0
    /\ pcWorker' = "idle"
    /\ idx' = 1
    /\ sigs' = FALSE
    /\ done' = FALSE
    /\ sigData' = << >>
    /\ existingOutputs' = << >>
    /\ requests' = ZeroCounts
    /\ applies' = ZeroCounts
    /\ produced' = << >>
    /\ failures' = FALSE
    /\ saveErrors' = {}
    /\ UNCHANGED << startup, generation, reword, memory, walker, sourceTrees, changes, worktree, newRepoExists, lastApply,
                    allCommits, DryRun, SummarizeOversizedCommits, journal, newRepo,
                    run, journalAtLoad, durable >>

\* The dry run is invoked again with the same repository and journal path.
ReInvoke ==
    /\ pcMain \in {"exited", "crashed"}
    /\ DryRun
    /\ run < MaxRuns
    /\ run' = run + 1
    /\ commitsToRewrite' = NeedsRewriteOf(allCommits)
    /\ rewriteOutputs' = << >>
    /\ processedCommitIDs' = << >>
    /\ ProcessedCommits' = 0
    /\ pcMain' = "load"
    /\ pcWorker' = "idle"
    /\ idx' = 1
    /\ sigs' = FALSE
    /\ done' = FALSE
    /\ sigData' = << >>
    /\ existingOutputs' = << >>
    /\ requests' = ZeroCounts
    /\ applies' = ZeroCounts
    /\ produced' = << >>
    /\ failures' = FALSE
    /\ saveErrors' = {}
    /\ UNCHANGED << startup, generation, reword, memory, walker, sourceTrees, changes, worktree, newRepoExists, lastApply,
                    allCommits, DryRun, SummarizeOversizedCommits, journal, newRepo,
                    journalAtLoad, durable >>

\* ---- specifications -----------------------------------------------------------------

Next ==
    \/ StartBatch
    \/ DeclineConfirmation
    \/ HandleInterrupt
    \/ InterruptOpen
    \/ InterruptWrite
    \/ InterruptExit
    \/ ObserveDone
    \/ PassThroughDryRun
    \/ ApplyOriginal
    \/ SkipOversized
    \/ SendRequest
    \/ GenerationFails
    \/ GenerationReturnsDryRun
    \/ GenerationReturnsApply
    \/ PeriodicOpen
    \/ PeriodicWrite
    \/ FinalOpen
    \/ FinalWrite
    \/ SkipFinalSave
    \/ SendDone
    \/ Signal
    \/ Crash
    \/ ReInvoke

Spec == Init /\ [][Next]_vars

\* One uninterrupted dry run over a long history, without a journal at the start.
InitSingleRun == InitWith(Histories(LongCommits), {TRUE}, NoJournal)

NextSingleRun ==
    \/ StartBatch
    \/ PassThroughDryRun
    \/ SkipOversized
    \/ SendRequest
    \/ GenerationFails
    \/ GenerationReturnsDryRun
    \/ PeriodicOpen
    \/ PeriodicWrite
    \/ FinalOpen
    \/ FinalWrite
    \/ SkipFinalSave
    \/ SendDone
    \/ ObserveDone

SpecSingleRun == InitSingleRun /\ [][NextSingleRun]_vars

\* ---- the walker called on a native log ----------------------------------------------

\* Everything but the call of the walker.
batchVars == << allCommits, commitsToRewrite, DryRun, SummarizeOversizedCommits, journal,
                rewriteOutputs, processedCommitIDs, ProcessedCommits, pcMain, pcWorker,
                idx, sigs, done, sigData, newRepo, run, existingOutputs, journalAtLoad,
                requests, applies, produced, failures, durable, saveErrors,
                sourceTrees, changes, worktree, newRepoExists, lastApply , startup, generation, reword, memory >>

\* GetCommitsChronological is called and runs to its return, or panics in the slice
\* expression.
CallGetCommitsChronological ==
    /\ walker.pc = "call"
    /\ LET w == walker
           r == GetCommitsChronological(w.log, w.maxMsgLength, w.maxDiffLength)
       IN  walker' =
             IF WalkPanics(w.log, w.maxMsgLength, w.maxDiffLength)
             THEN [w EXCEPT !.pc = "panicked"]
             ELSE [w EXCEPT !.pc = "returned", !.allCommits = r[1],
                            !.commitsToRewrite = r[2]]
    /\ UNCHANGED batchVars

\* GetCommitsToRewrite is called and runs to its return, or panics.
CallGetCommitsToRewrite ==
    /\ walker.pc = "call"
    /\ LET w == walker
       IN  walker' =
             IF WalkPanics(w.log, w.maxMsgLength, w.maxDiffLength)
             THEN [w EXCEPT !.pc = "panicked"]
             ELSE [w EXCEPT !.pc = "returnedToRewrite",
                            !.commitsToRewrite =
                               GetCommitsToRewrite(w.log, w.maxMsgLength, w.maxDiffLength)]
    /\ UNCHANGED batchVars

\* repo.Log or a tree, diff or patch of some commit fails: (nil, nil, err).
WalkReturnsError ==
    /\ walker.pc = "call"
    /\ walker' = [walker EXCEPT !.pc = "failed"]
    /\ UNCHANGED batchVars

\* GetCommitsToRewrite ends with an error: repo.Log fails and the result is nil, or
\* the callback returns an error at a commit of the log and the result is the
\* slice of the commits appended before it (return commits, err).
GetCommitsToRewriteReturnsError ==
    /\ walker.pc = "call"
    /\ \/ walker' = [walker EXCEPT !.pc = "failedToRewrite"]
       \/ \E i \in 1..Len(walker.log) :
            LET before == SubSeq(walker.log, 1, i - 1)
            IN  /\ ~WalkPanics(before, walker.maxMsgLength, walker.maxDiffLength)
                /\ walker' = [walker EXCEPT
                                !.pc = "failedToRewrite",
                                !.commitsToRewrite =
                                   GetCommitsToRewrite(before, walker.maxMsgLength,
                                                       walker.maxDiffLength)]
    /\ UNCHANGED batchVars

InitWalk ==
    /\ \E n \in 0..MaxLog, mm \in FlagValues, md \in FlagValues :
         \E log \in Logs(n) : walker = Walk(log, mm, md, "call", << >>, << >>)
    /\ allCommits = << >>
    /\ DryRun = TRUE
    /\ SummarizeOversizedCommits = FALSE
    /\ journal = File("missing", << >>, TRUE)
    /\ journalAtLoad = journal
    /\ newRepo = << >>
    /\ run = 1
    /\ durable = {}
    /\ ProcessStart
    /\ sourceTrees = << >>
    /\ changes = << >>
    /\ worktree = {}
    /\ newRepoExists = FALSE
    /\ lastApply = NoApply
    /\ startup = NoStartup
    /\ generation = NoGeneration
    /\ reword = NoReword
    /\ memory = NoMemory

NextWalk ==
    \/ CallGetCommitsChronological
    \/ CallGetCommitsToRewrite
    \/ WalkReturnsError
    \/ GetCommitsToRewriteReturnsError

SpecWalk == InitWalk /\ [][NextWalk]_vars

\* ---- the loop over the changes of a commit (git.go) -------------------------------------

\* One pass of for _, change := range changes: change.Files() fails and the callback
\* returns the error; or the change has no name on either side and is passed over;
\* or change.Patch() fails and the callback returns the error; or a models.File
\* with the path and the cut patch is appended to output.Files.
ExtractChange ==
    /\ walker.pc = "changes"
    /\ walker.next <= Len(walker.changes)
    /\ LET change == walker.changes[walker.next]
           path == PathOf(change)
       IN  \/ walker' = [walker EXCEPT !.pc = "failed",
                                       !.err = "failed to get files for change"]
           \/ /\ path = ""
              /\ walker' = [walker EXCEPT !.next = @ + 1]
           \/ /\ path # ""
              /\ \/ walker' = [walker EXCEPT !.pc = "failed",
                                             !.err = "failed to generate patch"]
                 \/ walker' = [walker EXCEPT
                       !.next = @ + 1,
                       !.Files = Append(@, [Path |-> path,
                                            Diff |-> TruncateDiff(Text(MaxLen),
                                                                  walker.maxDiffLength)])]
    /\ UNCHANGED batchVars

\* The loop has passed the last change.
ExtractDone ==
    /\ walker.pc = "changes"
    /\ walker.next > Len(walker.changes)
    /\ walker' = [walker EXCEPT !.pc = "extracted"]
    /\ UNCHANGED batchVars

InitExtract ==
    /\ walker \in { Extraction(cs, md) : cs \in ChangeLists, md \in 0..(MaxLen - 1) }
    /\ allCommits = << >>
    /\ DryRun = TRUE
    /\ SummarizeOversizedCommits = FALSE
    /\ journal = File("missing", << >>, TRUE)
    /\ journalAtLoad = journal
    /\ newRepo = << >>
    /\ run = 1
    /\ durable = {}
    /\ ProcessStart
    /\ sourceTrees = << >>
    /\ changes = << >>
    /\ worktree = {}
    /\ newRepoExists = FALSE
    /\ lastApply = NoApply
    /\ startup = NoStartup
    /\ generation = NoGeneration
    /\ reword = NoReword
    /\ memory = NoMemory

NextExtract ==
    \/ ExtractChange
    \/ ExtractDone

SpecExtract == InitExtract /\ [][NextExtract]_vars

\* ---- the replay: direct mode and apply-from-file mode -----------------------------

\* The trees of a history of n commits: a commit adds a file to the tree of its
\* parent or leaves the tree as it is.
TreeChoices(n) == [ 1..n -> { {1}, {1, 2} } ]

\* An id no commit of the history has.
UnknownID == MaxCommits + 1

\* The changes files handed to -apply-changes: none, malformed ones, and arrays
\* without entries, with one entry per id, with two entries for an id, and with an
\* entry for an id that is not in the history.
ChangesFiles ==
    { File("missing", << >>, TRUE),
      File("syntax", << >>, TRUE),
      File("type", << RewriteOutput(1, 1) >>, TRUE),
      File("array", << RewriteOutput(1, 1) >>, FALSE),
      File("array", << >>, TRUE),
      File("array", << RewriteOutput(1, 1) >>, TRUE),
      File("array", << RewriteOutput(1, 1), RewriteOutput(1, 2) >>, TRUE),
      File("array", << RewriteOutput(UnknownID, 1), RewriteOutput(MaxCommits, 2) >>, TRUE) }

\* The changes files a process is started on with -apply-changes: none, a malformed
\* one, an array with an entry.
StartupChangesFiles ==
    { File("missing", << >>, TRUE),
      File("syntax", << >>, TRUE),
      File("array", << RewriteOutput(1, 1) >>, TRUE) }

\* A process in direct mode after CreateNewRepository, or one started with
\* -apply-changes.
InitReplay ==
    /\ allCommits \in UNION { Histories(n) : n \in 1..MaxCommits }
    /\ sourceTrees \in TreeChoices(Len(allCommits))
    /\ DryRun = FALSE
    /\ \E direct \in BOOLEAN :
         IF direct
         THEN /\ SummarizeOversizedCommits \in BOOLEAN
              /\ journal \in NoJournal
              /\ newRepoExists = TRUE
              /\ ProcessStart
         ELSE /\ SummarizeOversizedCommits = FALSE
              /\ journal \in ChangesFiles
              /\ newRepoExists = FALSE
              /\ commitsToRewrite = NeedsRewriteOf(allCommits)
              /\ rewriteOutputs = << >>
              /\ processedCommitIDs = << >>
              /\ ProcessedCommits = 0
              /\ pcMain = "applyStart"
              /\ pcWorker = "idle"
              /\ idx = 1
              /\ sigs = FALSE
              /\ done = FALSE
              /\ sigData = << >>
              /\ existingOutputs = << >>
              /\ requests = ZeroCounts
              /\ applies = ZeroCounts
              /\ produced = << >>
              /\ failures = FALSE
              /\ saveErrors = {}
    /\ journalAtLoad = journal
    /\ newRepo = << >>
    /\ run = 1
    /\ durable = {}
    /\ walker = NoWalk
    /\ changes = << >>
    /\ worktree = {}
    /\ lastApply = NoApply
    /\ startup = NoStartup
    /\ generation = NoGeneration
    /\ reword = NoReword
    /\ memory = NoMemory

NextReplay ==
    \/ StartBatch
    \/ DeclineConfirmation
    \/ HandleInterrupt
    \/ InterruptExit
    \/ ObserveDone
    \/ ApplyOriginal
    \/ SkipOversized
    \/ SendRequest
    \/ GenerationFails
    \/ GenerationReturnsApply
    \/ SkipFinalSave
    \/ SendDone
    \/ Signal
    \/ Crash
    \/ InvokeApplyChanges
    \/ StartApplyChanges
    \/ DeclineApplyChanges
    \/ ApplyChange
    \/ ApplyChangesDone
    \/ KillApplyChanges

SpecReplay == InitReplay /\ [][NextReplay]_vars

\* ---- end to end: dry runs, then apply-from-file of their journal ---------------------

InitEndToEnd == InitWith(UNION { Histories(n) : n \in 1..MaxCommits }, {TRUE}, NoJournal)

NextEndToEnd ==
    \/ StartBatch
    \/ HandleInterrupt
    \/ InterruptOpen
    \/ InterruptWrite
    \/ InterruptExit
    \/ ObserveDone
    \/ PassThroughDryRun
    \/ SkipOversized
    \/ SendRequest
    \/ GenerationFails
    \/ GenerationReturnsDryRun
    \/ PeriodicOpen
    \/ PeriodicWrite
    \/ FinalOpen
    \/ FinalWrite
    \/ SkipFinalSave
    \/ SendDone
    \/ Signal
    \/ Crash
    \/ ReInvoke
    \/ InvokeApplyChanges
    \/ StartApplyChanges
    \/ DeclineApplyChanges
    \/ ApplyChange
    \/ ApplyChangesDone
    \/ KillApplyChanges

SpecEndToEnd == InitEndToEnd /\ [][NextEndToEnd]_vars

\* ---- the start of a process: RunApplication up to the walk ------------------------------

\* What a step of the start leaves alone besides pcMain, startup and the directory of
\* the new repository.
startVars == << allCommits, commitsToRewrite, DryRun, SummarizeOversizedCommits, journal,
                rewriteOutputs, processedCommitIDs, ProcessedCommits, pcWorker, idx,
                sigs, done, sigData, newRepo, run, existingOutputs, journalAtLoad,
                requests, applies, produced, failures, durable, saveErrors, walker,
                sourceTrees, changes, lastApply, generation, reword, memory >>

\* The call c is made.
Called(c) == [startup EXCEPT !.calls = Append(@, c)]

\* if RepoPath == "": os.Exit(1).
CheckRepoPath ==
    /\ pcMain = "start"
    /\ pcMain' = IF startup.RepoPath THEN "dispatch" ELSE "exited"
    /\ UNCHANGED << startup, newRepoExists, worktree, startVars >>

\* ApplyChangesMode entered after the availability probe: not the code.
CallApplyChangesMode_AfterProbe ==
    /\ pcMain = "dispatch"
    /\ startup.ApplyChangesFile
    /\ \E up \in BOOLEAN :
         /\ startup' = [Called("CheckOllamaAvailability") EXCEPT !.ollama = IF up THEN "up" ELSE "down"]
         /\ pcMain' = IF up THEN "applyOpen" ELSE "exited"
    /\ UNCHANGED << newRepoExists, worktree, startVars >>

\* if ApplyChangesFile != "": ApplyChangesMode is called, before any other call.
CallApplyChangesMode ==
    /\ pcMain = "dispatch"
    /\ startup.ApplyChangesFile
    /\ pcMain' = "applyOpen"
    /\ UNCHANGED << startup, newRepoExists, worktree, startVars >>

\* A failed probe is logged and the run goes on: not the code.
CheckOllamaAvailability_FailureIgnored ==
    /\ pcMain = "dispatch"
    /\ ~startup.ApplyChangesFile
    /\ \E up \in BOOLEAN :
         startup' = [Called("CheckOllamaAvailability") EXCEPT !.ollama = IF up THEN "up" ELSE "down"]
    /\ pcMain' = "branch"
    /\ UNCHANGED << newRepoExists, worktree, startVars >>

\* services.CheckOllamaAvailability(): an error is fatal.
CheckOllamaAvailability ==
    /\ pcMain = "dispatch"
    /\ ~startup.ApplyChangesFile
    /\ \E up \in BOOLEAN :
         /\ startup' = [Called("CheckOllamaAvailability") EXCEPT !.ollama = IF up THEN "up" ELSE "down"]
         /\ pcMain' = IF up THEN "branch" ELSE "exited"
    /\ UNCHANGED << newRepoExists, worktree, startVars >>

\* The branch check of RunApplication: GetCurrentBranchName, GetDefaultBranchName,
\* the comparison; a failure is fatal.
VerifyBranch ==
    /\ pcMain = "branch"
    /\ \E head \in Heads, default \in Defaults :
         /\ startup' = [startup EXCEPT !.head = head, !.defaultBranch = default]
         /\ pcMain' = IF BranchVerified(head, default) THEN "contextSize" ELSE "exited"
    /\ UNCHANGED << newRepoExists, worktree, startVars >>

\* services.GetModelContextSize(Model): an error is fatal.
GetModelContextSize ==
    /\ pcMain = "contextSize"
    /\ \E known \in BOOLEAN :
         /\ startup' = [Called("GetModelContextSize") EXCEPT
                        !.contextSize = IF known THEN "known" ELSE "failed"]
         /\ pcMain' = IF known THEN "create" ELSE "exited"
    /\ UNCHANGED << newRepoExists, worktree, startVars >>

\* The new repository is created in a dry run too: not the code.
PrepareNewRepository_AlsoInDryRun ==
    /\ pcMain = "create"
    /\ startup' = Called("CreateNewRepository")
    /\ IF newRepoExists
       THEN /\ pcMain' = "exited"
            /\ UNCHANGED << newRepoExists, worktree >>
       ELSE /\ pcMain' = "walk"
            /\ newRepoExists' = TRUE
            /\ worktree' = {}
    /\ UNCHANGED startVars

\* CreateNewRepository without the os.Stat check: an existing directory is
\* initialised and emptied. Not the code.
PrepareNewRepository_IntoExisting ==
    /\ pcMain = "create"
    /\ IF DryRun
       THEN /\ pcMain' = "walk"
            /\ UNCHANGED << startup, newRepoExists, worktree >>
       ELSE /\ startup' = Called("CreateNewRepository")
            /\ pcMain' = "walk"
            /\ newRepoExists' = TRUE
            /\ worktree' = {}
    /\ UNCHANGED startVars

\* if DryRun: a log line. Otherwise CreateNewRepository, which fails when the
\* directory exists or when creating it or git init fails (the directory may be left
\* behind); its error is fatal; ConfigureNewRepository, whose error is not.
PrepareNewRepository ==
    /\ pcMain = "create"
    /\ IF DryRun
       THEN /\ pcMain' = "walk"
            /\ UNCHANGED << startup, newRepoExists, worktree >>
       ELSE /\ startup' = Called("CreateNewRepository")
            /\ IF newRepoExists
               THEN /\ pcMain' = "exited"
                    /\ UNCHANGED << newRepoExists, worktree >>
               ELSE \E created \in BOOLEAN :
                      IF created
                      THEN /\ pcMain' = "walk"
                           /\ newRepoExists' = TRUE
                           /\ worktree' = {}
                      ELSE /\ pcMain' = "exited"
                           /\ newRepoExists' \in BOOLEAN
                           /\ worktree' = {}
    /\ UNCHANGED startVars

\* git.PlainOpen, regexp.Compile of -exclude, GetCommitsChronological: an error of
\* any is fatal; otherwise the process has the history.
WalkHistory ==
    /\ pcMain = "walk"
    /\ \E walked \in BOOLEAN : pcMain' = IF walked THEN "load" ELSE "exited"
    /\ UNCHANGED << startup, newRepoExists, worktree, startVars >>

\* ApplyChangesMode: git.PlainOpen and the branch check; a failure of either is fatal.
ApplyChangesVerifyBranch ==
    /\ pcMain = "applyOpen"
    /\ \E opened \in BOOLEAN, head \in Heads, default \in Defaults :
         IF opened
         THEN /\ startup' = [startup EXCEPT !.head = head, !.defaultBranch = default]
              /\ pcMain' = IF BranchVerified(head, default) THEN "applyStart"
                           ELSE "exited"
         ELSE /\ pcMain' = "exited"
              /\ UNCHANGED startup
    /\ UNCHANGED << newRepoExists, worktree, startVars >>

\* A process is started with some flags on a history; the new repository's directory
\* exists from an earlier run, empty or with a file, or not; the journal path holds nothing (generation
\* modes) or the changes file (-apply-changes).
InitStartup ==
    /\ allCommits \in UNION { Histories(n) : n \in 1..StartupCommits }
    /\ DryRun \in BOOLEAN
    /\ SummarizeOversizedCommits \in BOOLEAN
    /\ startup \in { Startup(r, a) : r \in BOOLEAN, a \in BOOLEAN }
    /\ journal \in (IF startup.ApplyChangesFile THEN StartupChangesFiles ELSE NoJournal)
    /\ journalAtLoad = journal
    /\ newRepoExists \in BOOLEAN
    /\ worktree \in (IF newRepoExists THEN { {}, {1} } ELSE { {} })
    /\ commitsToRewrite = NeedsRewriteOf(allCommits)
    /\ rewriteOutputs = << >>
    /\ processedCommitIDs = << >>
    /\ ProcessedCommits = 0
    /\ pcMain = "start"
    /\ pcWorker = "idle"
    /\ idx = 1
    /\ sigs = FALSE
    /\ done = FALSE
    /\ sigData = << >>
    /\ existingOutputs = << >>
    /\ requests = ZeroCounts
    /\ applies = ZeroCounts
    /\ produced = << >>
    /\ failures = FALSE
    /\ saveErrors = {}
    /\ newRepo = << >>
    /\ run = 1
    /\ durable = {}
    /\ walker = NoWalk
    /\ sourceTrees = [ i \in 1..Len(allCommits) |-> {i} ]
    /\ changes = << >>
    /\ lastApply = NoApply
    /\ generation = NoGeneration
    /\ reword = NoReword
    /\ memory = NoMemory

NextStartup ==
    \/ CheckRepoPath
    \/ CallApplyChangesMode
    \/ CheckOllamaAvailability
    \/ VerifyBranch
    \/ GetModelContextSize
    \/ PrepareNewRepository
    \/ WalkHistory
    \/ ApplyChangesVerifyBranch
    \/ StartBatch
    \/ DeclineConfirmation
    \/ HandleInterrupt
    \/ InterruptOpen
    \/ InterruptWrite
    \/ InterruptExit
    \/ ObserveDone
    \/ PassThroughDryRun
    \/ ApplyOriginal
    \/ SkipOversized
    \/ SendRequest
    \/ GenerationFails
    \/ GenerationReturnsDryRun
    \/ GenerationReturnsApply
    \/ FinalOpen
    \/ FinalWrite
    \/ SkipFinalSave
    \/ SendDone
    \/ Signal
    \/ StartApplyChanges
    \/ DeclineApplyChanges
    \/ ApplyChange
    \/ ApplyChangesDone

SpecStartup == InitStartup /\ [][NextStartup]_vars

\* ---- the loop body for a needs-rewrite commit (run.go) ------------------------------------

\* What a step of the loop body leaves alone.
generationFrame == << allCommits, commitsToRewrite, DryRun, SummarizeOversizedCommits,
                      journal, rewriteOutputs, processedCommitIDs, ProcessedCommits,
                      pcMain, pcWorker, idx, sigs, done, sigData, newRepo, run,
                      existingOutputs, journalAtLoad, requests, applies, produced,
                      failures, durable, saveErrors, walker, sourceTrees, changes,
                      worktree, newRepoExists, lastApply, startup, reword, memory >>

\* The exclude filter and the file-count ceiling: the commit is skipped with an
\* error log, or goes to the simplified path, or to the normal one.
RouteCommit ==
    /\ generation.pc = "commit"
    /\ LET files == FilteredFiles(generation.Files, generation.excludePattern)
       IN  generation' =
             IF Oversized(files, generation.MaxFilesPerCommit)
             THEN IF SummarizeOversizedCommits
                  THEN [generation EXCEPT !.Files = files, !.pc = "simplified",
                                          !.path = "simplified"]
                  ELSE [generation EXCEPT !.Files = files, !.pc = "skipped",
                                          !.path = "skip", !.errorsLogged = @ + 1]
             ELSE [generation EXCEPT !.Files = files, !.pc = "normal",
                                     !.path = "normal"]
    /\ UNCHANGED generationFrame

\* GenerateSimplifiedCommitMessage and what follows it: an error is logged and the
\* commit skipped; otherwise the decision is appended (dry run) or the commit
\* applied, a failed apply being logged and the commit not counted.
GenerateSimplified ==
    /\ generation.pc = "simplified"
    /\ \E outcome \in { "error", "message" }, sent \in BOOLEAN, applied \in BOOLEAN :
         /\ outcome = "message" => sent
         /\ DryRun => applied
         /\ generation' =
              IF outcome = "error"
              THEN [generation EXCEPT !.pc = "skipped", !.err = "simplified failed",
                                      !.simplifiedRequests = IF sent THEN 1 ELSE 0,
                                      !.errorsLogged = @ + 1]
              ELSE IF applied
              THEN [generation EXCEPT !.pc = "decided", !.simplifiedRequests = 1,
                                      !.decisions = @ + 1]
              ELSE [generation EXCEPT !.pc = "skipped", !.simplifiedRequests = 1,
                                      !.err = "apply failed", !.errorsLogged = @ + 1]
    /\ UNCHANGED generationFrame

\* GenerateNewCommitMessage up to the request: the commit is serialized and the
\* budget checked; over the budget the call returns the error without a request,
\* otherwise the request is sent.
CheckBudgetAndSend ==
    /\ generation.pc = "normal"
    /\ \E bytes \in PayloadBytes :
         generation' =
           IF WouldExceedContextWindow(bytes, generation.contextSize)
           THEN [generation EXCEPT !.payloadBytes = bytes, !.pc = "returned",
                                   !.err = "would exceed context window"]
           ELSE [generation EXCEPT !.payloadBytes = bytes, !.pc = "sent",
                                   !.normalRequests = @ + 1]
    /\ UNCHANGED generationFrame

\* The request ends: with an error of the request, with a response that does not
\* parse, or with the messages of a response.
ResponseArrives ==
    /\ generation.pc = "sent"
    /\ \/ \E e \in { "request failed", "unmarshal failed" } :
            generation' = [generation EXCEPT !.pc = "returned", !.err = e]
       \/ \E r \in Responses :
            generation' = [generation EXCEPT !.pc = "returned", !.messages = r]
    /\ UNCHANGED generationFrame

\* The loop body after GenerateNewCommitMessage: an error is logged and the loop
\* continues with the next commit; otherwise the new message is built from the
\* entries and the decision appended (dry run) or the commit applied, a failed
\* apply being logged and the commit not counted.
AfterGenerateNewCommitMessage ==
    /\ generation.pc = "returned"
    /\ \E applied \in BOOLEAN :
         /\ (DryRun \/ generation.err # "none") => applied
         /\ generation' =
              IF generation.err # "none"
              THEN [generation EXCEPT !.pc = "skipped", !.errorsLogged = @ + 1]
              ELSE IF applied
              THEN [generation EXCEPT !.pc = "decided", !.decisions = @ + 1,
                                      !.newMessage = BuildNewMessage(generation.messages)]
              ELSE [generation EXCEPT !.pc = "skipped", !.err = "apply failed",
                                      !.errorsLogged = @ + 1,
                                      !.newMessage = BuildNewMessage(generation.messages)]
    /\ UNCHANGED generationFrame

\* A needs-rewrite commit reaches the loop body of a process with some flags.
InitGeneration ==
    /\ generation \in { Generation(f, e, m, c) :
                          f \in FileLists, e \in BOOLEAN, m \in FileLimits,
                          c \in ContextWindows }
    /\ DryRun \in BOOLEAN
    /\ SummarizeOversizedCommits \in BOOLEAN
    /\ allCommits = << >>
    /\ journal = File("missing", << >>, TRUE)
    /\ journalAtLoad = journal
    /\ newRepo = << >>
    /\ run = 1
    /\ durable = {}
    /\ ProcessStart
    /\ walker = NoWalk
    /\ sourceTrees = << >>
    /\ changes = << >>
    /\ worktree = {}
    /\ newRepoExists = ~DryRun
    /\ lastApply = NoApply
    /\ startup = NoStartup
    /\ reword = NoReword
    /\ memory = NoMemory

NextGeneration ==
    \/ RouteCommit
    \/ GenerateSimplified
    \/ CheckBudgetAndSend
    \/ ResponseArrives
    \/ AfterGenerateNewCommitMessage

SpecGeneration == InitGeneration /\ [][NextGeneration]_vars

\* ---- the decision list shared by the two goroutines (run.go) ------------------------------

\* What a step on the shared memory leaves alone.
memoryFrame == << allCommits, commitsToRewrite, DryRun, SummarizeOversizedCommits,
                  journal, rewriteOutputs, processedCommitIDs, ProcessedCommits,
                  pcMain, pcWorker, idx, sigs, done, sigData, newRepo, run,
                  existingOutputs, journalAtLoad, requests, applies, produced,
                  failures, durable, saveErrors, walker, sourceTrees, changes,
                  worktree, newRepoExists, lastApply, startup, generation, reword >>

\* The worker: rewriteOutputs = append(rewriteOutputs, rewriteOutput), up to the
\* store of the result. The decisions are numbered in the order of the appends.
AppendDecision ==
    /\ memory.pcWorker = "loop"
    /\ memory.decisions < MaxDecisions
    /\ LET r == GoAppend(memory.arrays, memory.rewriteOutputs, memory.decisions + 1)
       IN  memory' = [memory EXCEPT !.arrays = r.arrays, !.pending = r.header,
                                    !.toStore = Words, !.pcWorker = "store",
                                    !.decisions = @ + 1]
    /\ UNCHANGED memoryFrame

\* The worker stores a word of the new header into the variable; the three stores
\* are not atomic together and the other goroutine can run between them.
StoreWord ==
    /\ memory.pcWorker = "store"
    /\ \E w \in memory.toStore :
         memory' = [memory EXCEPT
                      !.rewriteOutputs[w] = memory.pending[w],
                      !.toStore = @ \ {w},
                      !.pcWorker = IF memory.toStore = {w} THEN "loop" ELSE "store"]
    /\ UNCHANGED memoryFrame

\* The loop of the worker is over.
WorkerEnds ==
    /\ memory.pcWorker = "loop"
    /\ memory' = [memory EXCEPT !.pcWorker = "finished"]
    /\ UNCHANGED memoryFrame

\* case <-sigs in a dry run: if len(rewriteOutputs) > 0 the handler goes on to call
\* savePartialDryRunResults(outputFilePath, rewriteOutputs), else it exits.
ReadLen ==
    /\ memory.pcMain = "select"
    /\ memory' = IF memory.rewriteOutputs.len > 0
                 THEN [memory EXCEPT !.pcMain = "load", !.toLoad = Words]
                 ELSE [memory EXCEPT !.pcMain = "exited"]
    /\ UNCHANGED memoryFrame

\* The handler loads a word of the header for the argument of the call.
LoadWord ==
    /\ memory.pcMain = "load"
    /\ \E w \in memory.toLoad :
         memory' = [memory EXCEPT
                      !.outputs[w] = memory.rewriteOutputs[w],
                      !.toLoad = @ \ {w},
                      !.pcMain = IF memory.toLoad = {w} THEN "marshal" ELSE "load"]
    /\ UNCHANGED memoryFrame

\* savePartialDryRunResults: nothing for an empty list; json.MarshalIndent reads the
\* elements through the header it was handed, and panics on a nil pointer; then
\* os.WriteFile, and the handler exits.
MarshalOutputs ==
    /\ memory.pcMain = "marshal"
    /\ memory' =
         IF memory.outputs.len = 0
         THEN [memory EXCEPT !.pcMain = "exited"]
         ELSE IF memory.outputs.ptr = 0
         THEN [memory EXCEPT !.pcMain = "panicked"]
         ELSE [memory EXCEPT !.pcMain = "exited",
                             !.data = ElementsRead(memory.arrays, memory.outputs)]
    /\ UNCHANGED memoryFrame

InitMemory ==
    /\ memory = Memory
    /\ allCommits = << >>
    /\ DryRun = TRUE
    /\ SummarizeOversizedCommits = FALSE
    /\ journal = File("missing", << >>, TRUE)
    /\ journalAtLoad = journal
    /\ newRepo = << >>
    /\ run = 1
    /\ durable = {}
    /\ ProcessStart
    /\ walker = NoWalk
    /\ sourceTrees = << >>
    /\ changes = << >>
    /\ worktree = {}
    /\ newRepoExists = FALSE
    /\ lastApply = NoApply
    /\ startup = NoStartup
    /\ generation = NoGeneration
    /\ reword = NoReword

NextMemory ==
    \/ AppendDecision
    \/ StoreWord
    \/ WorkerEnds
    \/ ReadLen
    \/ LoadWord
    \/ MarshalOutputs

SpecMemory == InitMemory /\ [][NextMemory]_vars

\* ---- a call of RewordCommit (git.go) -----------------------------------------------------

\* What a step of RewordCommit leaves alone.
rewordFrame == << allCommits, commitsToRewrite, DryRun, SummarizeOversizedCommits,
                  journal, rewriteOutputs, processedCommitIDs, ProcessedCommits,
                  pcMain, pcWorker, idx, sigs, done, sigData, newRepo, run,
                  existingOutputs, journalAtLoad, requests, applies, produced,
                  failures, durable, saveErrors, walker, sourceTrees, changes,
                  worktree, newRepoExists, lastApply, startup, generation, memory >>

\* The call ends with an error in the phase it is in.
Fails(err) == [reword EXCEPT !.pc = "failed", !.err = err, !.phases = Append(@, "Failed")]

\* RewordCommit up to the environment of the commands: git rev-parse --git-dir, the
\* base, the abbreviated hash, the sed expression, the two temp files. Any of
\* these but the base can fail and end the call.
PrepareReword ==
    /\ reword.pc = "idle"
    /\ \/ \E err \in { "not a git repository", "failed to get abbreviated hash",
                       "temp file" } :
            reword' = Fails(err)
       \/ \E short \in AbbreviatedIds :
            /\ IsPrefix(short, reword.targetCommit)
            /\ reword' = [reword EXCEPT !.pc = "removeMergeDir", !.shortHash = short]
    /\ UNCHANGED rewordFrame

\* os.Stat and os.RemoveAll of .git/rebase-merge: a directory that is there is
\* removed, or the call ends with the error of the removal.
RemoveMergeDir ==
    /\ reword.pc = "removeMergeDir"
    /\ IF reword.priorState = "rebase-merge"
       THEN \E removed \in BOOLEAN :
              reword' =
                IF removed
                THEN [reword EXCEPT !.pc = "abort", !.priorState = "none",
                                    !.commands = Append(@, "RemoveAll rebase-merge"),
                                    !.phases = Append(@, "AbortingPriorState")]
                ELSE [Fails("failed to remove rebase-merge directory") EXCEPT
                        !.commands = Append(@, "RemoveAll rebase-merge"),
                        !.phases = << "Idle", "AbortingPriorState", "Failed" >>]
       ELSE reword' = [reword EXCEPT !.pc = "abort",
                                     !.phases = Append(@, "AbortingPriorState")]
    /\ UNCHANGED rewordFrame

\* What git rebase --abort can answer in a repository with the given rewrite state.
AbortOutcomes(priorState) ==
    IF priorState = "none"
    THEN { "No rebase in progress?", "other error" }
    ELSE { "aborted", "other error" }

\* Every error of git rebase --abort is ignored: not the code.
RebaseAbort_ErrorsIgnored ==
    /\ reword.pc = "abort"
    /\ \E out \in AbortOutcomes(reword.priorState) :
         reword' = [reword EXCEPT
                      !.pc = "rebase",
                      !.err = IF out = "other error" THEN "failed to clear rebase state"
                              ELSE "none",
                      !.priorState = IF out = "aborted" THEN "none" ELSE @,
                      !.commands = Append(@, "git rebase --abort")]
    /\ UNCHANGED rewordFrame

\* git rebase --abort: success or the output "No rebase in progress?" lets the call
\* go on; any other error ends it.
RebaseAbort ==
    /\ reword.pc = "abort"
    /\ \E out \in AbortOutcomes(reword.priorState) :
         reword' =
           IF out = "other error"
           THEN [Fails("failed to clear rebase state") EXCEPT
                   !.commands = Append(@, "git rebase --abort")]
           ELSE [reword EXCEPT !.pc = "rebase",
                               !.priorState = IF out = "aborted" THEN "none" ELSE @,
                               !.commands = Append(@, "git rebase --abort")]
    /\ UNCHANGED rewordFrame

\* git rebase -i <base> is started with the two editors in its environment.
InvokeRebase ==
    /\ reword.pc = "rebase"
    /\ reword' = [reword EXCEPT !.pc = "rewriting",
                                !.commands = Append(@, "git rebase -i"),
                                !.phases = Append(@, "Rewriting")]
    /\ UNCHANGED rewordFrame

\* git runs GIT_SEQUENCE_EDITOR on the instruction list.
RunSequenceEditor ==
    /\ reword.pc = "rewriting"
    /\ ~reword.transformed
    /\ reword' = [reword EXCEPT
                    !.transformed = TRUE,
                    !.edited = SequenceEditor(reword.todo, reword.targetCommit,
                                              reword.shortHash)]
    /\ UNCHANGED rewordFrame

\* After a failed git rebase -i the call runs git rebase --abort and the rewrite
\* again: not the code.
RebaseEnds_AbortAndRetry ==
    /\ reword.pc = "rewriting"
    /\ \/ \E out \in RebaseOutputs :
            reword' = [reword EXCEPT !.output = out, !.transformed = FALSE,
                                     !.commands = @ \o << "git rebase --abort",
                                                          "git rebase -i" >>]
       \/ /\ reword.transformed
          /\ reword' = [reword EXCEPT !.pc = "completed",
                                      !.phases = Append(@, "Completed")]
    /\ UNCHANGED rewordFrame

\* git rebase -i ends: with a non-zero exit at any point, and then the call returns
\* "rebase failed" with the combined output of the command and leaves whatever
\* state the rebase has left in the repository; or with success after the
\* instruction list was edited and carried out.
RebaseEnds ==
    /\ reword.pc = "rewriting"
    /\ \/ \E out \in RebaseOutputs, left \in { reword.priorState, "rebase-merge" } :
            reword' = [Fails("rebase failed") EXCEPT !.output = out, !.detail = out,
                                                     !.priorState = left]
       \/ /\ reword.transformed
          /\ reword' = [reword EXCEPT !.pc = "completed",
                                      !.phases = Append(@, "Completed")]
    /\ UNCHANGED rewordFrame

\* RewordCommit is called for a commit of a repository.
InitReword ==
    /\ reword \in { Reword(t, p, l) : t \in FullIds, p \in PriorStates, l \in TodoLists }
    /\ allCommits = << >>
    /\ DryRun = FALSE
    /\ SummarizeOversizedCommits = FALSE
    /\ journal = File("missing", << >>, TRUE)
    /\ journalAtLoad = journal
    /\ newRepo = << >>
    /\ run = 1
    /\ durable = {}
    /\ ProcessStart
    /\ walker = NoWalk
    /\ sourceTrees = << >>
    /\ changes = << >>
    /\ worktree = {}
    /\ newRepoExists = FALSE
    /\ lastApply = NoApply
    /\ startup = NoStartup
    /\ generation = NoGeneration
    /\ memory = NoMemory

NextReword ==
    \/ PrepareReword
    \/ RemoveMergeDir
    \/ RebaseAbort
    \/ InvokeRebase
    \/ RunSequenceEditor
    \/ RebaseEnds

SpecReword == InitReword /\ [][NextReword]_vars

\* ---- properties -------------------------------------------------------------------

Ids(s) == { s[i].CommitID : i \in 1..Len(s) }

HasEntry(f, id) == id \in Ids(JournalEntries(f))

NoDuplicateIds(s) ==
    \A i, j \in 1..Len(s) : s[i].CommitID = s[j].CommitID => i = j

\* The run found no file, or a readable journal written by an earlier run.
CleanStart == journalAtLoad.readable /\ journalAtLoad.kind \in {"missing", "array"}

\* C1: in a dry run that loaded an existing journal, a needs-rewrite commit whose id
\* is among the loaded ids gets no generation request and no new decision.
C1_JournaledCommitsSkipped ==
    \A i \in 1..Len(allCommits) :
        ( /\ DryRun
          /\ pcMain # "load"
          /\ allCommits[i].NeedsRewrite
          /\ containsCommitID(processedCommitIDs, allCommits[i].CommitID) )
        => /\ requests[i] = 0
           /\ allCommits[i].CommitID \notin Ids(produced)

\* C2: over runs, interrupts and resumes against one journal path, the decision list
\* in memory and the journal file hold at most one decision per commit id (stated
\* for runs that found no file or a journal written by an earlier run).
C2_OneDecisionPerCommit ==
    (DryRun /\ CleanStart)
    => /\ NoDuplicateIds(rewriteOutputs)
       /\ NoDuplicateIds(JournalEntries(journal))

\* C3: a resumed dry run that completes with every generation succeeding produces
\* exactly |K \ J| decisions (J the loaded ids, K the candidates' ids), leaves a
\* journal whose ids are J \cup K, and keeps every loaded entry as it was.
C3_ResumeAddsOnlyNew ==
    ( /\ DryRun
      /\ pcMain = "waiting"
      /\ CleanStart
      /\ ~failures )
    => LET J == Ids(existingOutputs)
           K == Ids(NeedsRewriteOf(allCommits))
       IN  /\ Len(produced) = Cardinality(K \ J)
           /\ Len(rewriteOutputs) > 0 => Ids(JournalEntries(journal)) = J \cup K
           /\ \A k \in 1..Len(existingOutputs) :
                /\ k <= Len(JournalEntries(journal))
                /\ JournalEntries(journal)[k] = existingOutputs[k]

\* C4: however a dry run stops (interrupt handler's exit or crash), the journal file
\* still holds every decision of the last journal that was loaded or fully written
\* (stated for runs that found no file or a journal written by an earlier run).
C4_InterruptionKeepsJournal ==
    (DryRun /\ CleanStart /\ pcMain \in {"exited", "crashed"})
    => durable \subseteq Range(JournalEntries(journal))

\* C5: a re-invoked dry run that runs to its end has sent a generation request for
\* every commit it can send that has no entry in the journal it found, and none for
\* a commit that has one.
C5_RetryExactlyUnjournaled ==
    ( /\ DryRun
      /\ run > 1
      /\ pcWorker = "finished"
      /\ CleanStart )
    => \A i \in 1..Len(allCommits) :
         Processable(allCommits[i])
         => IF HasEntry(journalAtLoad, allCommits[i].CommitID)
            THEN requests[i] = 0
            ELSE requests[i] >= 1

\* C6: when the process has terminated through the interrupt handler of a dry run,
\* the journal file holds every decision that was in the list when the signal was
\* received (stated for runs that found no file or a journal written by an earlier
\* run, and for a handler whose os.WriteFile returned no error).
C6_InterruptFlushesBeforeExit ==
    (DryRun /\ CleanStart /\ pcMain = "exited" /\ "interrupt" \notin saveErrors)
    => Range(sigData) \subseteq Range(JournalEntries(journal))

\* C7: from the reception of an interrupt signal to the termination of the process,
\* no generation request is sent and no apply is started.
C7_NoNewWorkAfterSignal ==
    [][ (pcMain \in {"sigOpen", "sigWrite", "sigStop"})
          => (requests' = requests /\ applies' = applies) ]_vars

\* The decisions produced in this run that the journal file does not hold.
MissingFromJournal ==
    Cardinality({ k \in 1..Len(produced) :
                    produced[k] \notin Range(JournalEntries(journal)) })

\* C8: in a dry run whose periodic saves all succeeded, whenever the worker is
\* about to start a commit, fewer than 5 of the decisions produced so far are
\* missing from the journal file.
C8_SavedEveryFifthDecision ==
    (DryRun /\ pcMain = "select" /\ AtCommit /\ "periodic" \notin saveErrors)
    => MissingFromJournal < SaveEvery

C10_BadJournalMeansNoProgress ==
    ( /\ DryRun
      /\ pcMain # "load"
      /\ \/ ~journalAtLoad.readable
         \/ journalAtLoad.kind \in {"missing", "syntax", "type"} )
    => /\ existingOutputs = << >>
       /\ processedCommitIDs = << >>

\* ui.TotalCommits = len(allCommits)
TotalCommits == Len(allCommits)

\* C36: at every point of a run, a resumed dry run included, the processed-commit
\* counter is at least 0 and at most the total-commit counter.
C36_ProcessedWithinTotal ==
    /\ 0 <= ProcessedCommits
    /\ ProcessedCommits <= TotalCommits

\* ---- the walker: classification, order, truncation ------------------------------

Returned == walker.pc = "returned"

ReturnedAny == walker.pc \in {"returned", "returnedToRewrite"}

\* The hashes of the log whose message has at most maxMsgLength bytes.
ShortHashes ==
    { walker.log[i].Hash : i \in { k \in 1..Len(walker.log) :
                                     Len(walker.log[k].Message) <= walker.maxMsgLength } }

\* Every commit any of the walker's results holds.
WalkedCommits == Range(walker.allCommits) \cup Range(walker.commitsToRewrite)

C12_ChronologicalAndSubsequence ==
    Returned =>
      /\ Len(walker.allCommits) = Len(walker.log)
      /\ \A i \in 1..Len(walker.log) :
           walker.allCommits[Len(walker.log) + 1 - i].CommitID = walker.log[i].Hash
      /\ walker.commitsToRewrite
           = SelectSeq(walker.allCommits, LAMBDA c : c.NeedsRewrite)

\* C12 happens: a log of two commits, both in the needs-rewrite result.
C12_Witness ==
    /\ Returned
    /\ Len(walker.log) = 2
    /\ Len(walker.commitsToRewrite) = 2

\* C13: every file of every commit the walker returns has a diff of at most
\* maxDiffLength bytes.
C13_DiffWithinLimit ==
    ReturnedAny =>
      \A c \in WalkedCommits :
         \A j \in 1..Len(c.Files) : Len(c.Files[j].Diff) <= walker.maxDiffLength

\* C13 happens: a returned commit with two files, the first shorter than the limit
\* and the second cut to it.
C13_Witness ==
    /\ Returned
    /\ \E c \in Range(walker.allCommits) :
         /\ Len(c.Files) = 2
         /\ Len(c.Files[1].Diff) < walker.maxDiffLength
         /\ Len(c.Files[2].Diff) = walker.maxDiffLength
         /\ Len(c.Files[2].Diff) < MaxLen

\* C14: truncating a returned diff again with the same maxDiffLength changes nothing.
C14_TruncationIdempotent ==
    ReturnedAny =>
      \A c \in WalkedCommits :
         \A j \in 1..Len(c.Files) :
            TruncateDiff(c.Files[j].Diff, walker.maxDiffLength) = c.Files[j].Diff

\* C14 happens: a walk of one commit whose patch was longer than a positive limit and
\* came back as its first maxDiffLength bytes.
C14_Witness ==
    /\ ReturnedAny
    /\ walker.maxDiffLength > 0
    /\ Len(walker.log) = 1
    /\ Len(walker.commitsToRewrite) = 1
    /\ Len(walker.log[1].Patches) = 1
    /\ Len(walker.log[1].Patches[1]) > walker.maxDiffLength
    /\ walker.commitsToRewrite[1].Files[1].Diff
         = SubSeq(walker.log[1].Patches[1], 1, walker.maxDiffLength)

\* C33: a walk that ended with a traversal or diff error has returned no commit:
\* both of its commit lists are empty.
C33_FailedWalkReturnsNothing ==
    walker.pc \in { "failed", "failedToRewrite" }
    => /\ walker.allCommits = << >>
       /\ walker.commitsToRewrite = << >>

\* ---- the loop over the changes of a commit ------------------------------------------

\* The changes the loop has passed.
ChangesPassed == SubSeq(walker.changes, 1, walker.next - 1)

\* The path of a change by the rule of the post-change path first: the name after
\* the change when there is one, else the name before it, else none.
PostChangePathFirst(change) ==
    IF change.To.Name # "" THEN change.To.Name
    ELSE IF change.From.Name # "" THEN change.From.Name
    ELSE ""

\* C32: the files emitted for the changes passed so far are, in order, one per
\* change that has a name on some side, each with the post-change path when that is
\* not empty and with the pre-change path otherwise.
C32_PostChangePathPreferred ==
    LET named == SelectSeq(ChangesPassed, LAMBDA c : PostChangePathFirst(c) # "")
    IN  /\ Len(walker.Files) = Len(named)
        /\ \A i \in 1..Len(named) :
             walker.Files[i].Path = PostChangePathFirst(named[i])

\* ---- the replay -----------------------------------------------------------------------

\* The loop of a direct-mode batch is over.
DirectBatchOver == ~DryRun /\ pcWorker \in {"sendDone", "finished"}

\* The loop of ApplyChangesMode is over.
ApplyChangesOver == pcMain = "applyDone"

\* C15: when the loop of a replay is over, in direct mode or in apply-from-file mode,
\* every commit of the history has had exactly one apply attempt.
C15_EveryCommitAppliedOnce ==
    (DirectBatchOver \/ ApplyChangesOver)
    => \A i \in 1..Len(allCommits) : applies[i] = 1

\* The rewritten messages the changes file holds for a commit id.
FileMessages(id) ==
    { e.RewrittenMsg : e \in { x \in Range(JournalEntries(journal)) : x.CommitID = id } }

\* In the replay specification only a direct-mode batch runs without a changes file.
DirectReplay == journal.kind = "missing"

\* C16: every commit of the new repository belongs to a commit of the history and
\* carries the rewritten message for that id when there is one (generated in direct
\* mode, an entry of the changes file in apply-from-file mode), else the original
\* message.
C16_RewrittenElseOriginal ==
    \A k \in 1..Len(newRepo) :
       LET c == newRepo[k]
       IN  /\ c.CommitID \in 1..Len(allCommits)
           /\ IF DirectReplay
              THEN c.Message = IF allCommits[c.CommitID].NeedsRewrite
                               THEN NewMessage(run) ELSE 0
              ELSE IF FileMessages(c.CommitID) = {}
                   THEN c.Message = 0
                   ELSE c.Message \in FileMessages(c.CommitID)

\* C16 happens: apply-from-file has ended with a changes file holding an entry for
\* the newest commit and one for an id outside the history; the oldest commit was
\* replayed with its original message and the newest with the entry's.
C16_Witness ==
    /\ ApplyChangesOver
    /\ Len(allCommits) = MaxCommits
    /\ Len(newRepo) = MaxCommits
    /\ UnknownID \in Ids(changes)
    /\ newRepo[1].Message = 0
    /\ newRepo[MaxCommits].Message = 2

\* C17: the commits of the new repository are in the chronological order of the
\* history, none of them twice.
C17_AppliedOldestFirst ==
    \A j, k \in 1..Len(newRepo) :
       j < k => newRepo[j].CommitID < newRepo[k].CommitID

\* C17 happens: apply-from-file has replayed a history of at least two commits, all
\* of them.
C17_Witness ==
    /\ ApplyChangesOver
    /\ Len(newRepo) > 1
    /\ ProcessedCommits = Len(allCommits)

\* A step in which ApplyCommitToNewRepo was called.
ApplyAttempted == \E i \in 1..Len(allCommits) : applies'[i] = applies[i] + 1

\* C19: a call of ApplyCommitToNewRepo that returns an error creates no commit, and
\* the loop goes on with the next commit: the process stays where it was.
C19_FailedApplySkipsOnlyThatCommit ==
    [][ (ApplyAttempted /\ lastApply'.err)
          => /\ newRepo' = newRepo
             /\ idx' = idx + 1
             /\ pcMain' = pcMain
             /\ pcWorker' \in {"idle", "loop"} ]_vars

\* C19 happens: apply-from-file has ended, the oldest commit failed and the next one
\* was replayed.
C19_Witness ==
    /\ ApplyChangesOver
    /\ Len(allCommits) > 1
    /\ Len(newRepo) > 0
    /\ newRepo[1].CommitID = 2

\* C20: a commit whose tree is that of its parent, applied without an error of the
\* file system or of git, gives success and a new commit; when the parent is the
\* commit replayed before it, the new commit has the tree of that one.
C20_SameTreeReplaySucceeds ==
    LET i == lastApply.CommitID
        n == Len(newRepo)
    IN  (i > 1 /\ sourceTrees[i] = sourceTrees[i - 1] /\ lastApply.cause # "environment")
        => /\ ~lastApply.err
           /\ n > 0
           /\ newRepo[n].CommitID = i
           /\ (n > 1 /\ newRepo[n - 1].CommitID = i - 1)
                => newRepo[n].Tree = newRepo[n - 1].Tree

\* C20 happens: the last call replayed a commit with the tree of its parent, right
\* after its parent.
C20_Witness ==
    /\ lastApply.CommitID > 1
    /\ ~lastApply.err
    /\ sourceTrees[lastApply.CommitID] = sourceTrees[lastApply.CommitID - 1]
    /\ Len(newRepo) > 1
    /\ newRepo[Len(newRepo) - 1].CommitID = lastApply.CommitID - 1
    /\ newRepo[Len(newRepo)].Tree = newRepo[Len(newRepo) - 1].Tree

\* C21: after ApplyCommitToNewRepo has succeeded for a commit, the files of the new
\* repository's directory, .git apart, are exactly the files of that commit's tree:
\* no file of an earlier commit is left unless the tree has it; .git is still there.
C21_FullTreeReplacement ==
    (lastApply.CommitID # 0 /\ ~lastApply.err)
    => /\ worktree = sourceTrees[lastApply.CommitID]
       /\ lastApply.gitDirKept

\* C21 happens: the second commit, whose tree lacks a file of the first one's, was
\* applied after the first one, and the file is gone.
C21_Witness ==
    /\ lastApply.CommitID = 2
    /\ ~lastApply.err
    /\ Len(newRepo) = 2
    /\ newRepo[1].Tree = {1, 2}
    /\ newRepo[2].Tree = {1}
    /\ worktree = {1}
    /\ lastApply.gitDirKept

\* The decisions the process holds or has on disk: the entries read from the changes
\* file, the entries of the file itself, and the entries of a dry-run batch.
Decisions ==
    Range(changes) \cup Range(JournalEntries(journal)) \cup Range(rewriteOutputs)

\* C34: the applied flag of a decision is set only by a successful replay of its
\* commit and stays set: a decision whose commit has been replayed successfully
\* into the new repository has applied = true.
C34_ReplayedDecisionIsApplied ==
    \A d \in Decisions : d.CommitID \in Ids(newRepo) => d.IsApplied

\* ---- the start of a process --------------------------------------------------------------

\* The process was started without -apply-changes: a dry run or a direct run.
GenerationMode == ~startup.ApplyChangesFile

\* The calls the start has made.
CallsMade == Range(startup.calls)

\* C22: in a dry run no step creates or changes the new repository: no step calls
\* CreateNewRepository or ApplyCommitToNewRepo, whatever the commit, and the
\* directory of the new repository and its commits stay as they were.
C22_DryRunLeavesNoRepository ==
    [][(DryRun /\ GenerationMode)
       => /\ "CreateNewRepository" \notin Range(startup'.calls)
          /\ applies' = applies
          /\ lastApply' = lastApply
          /\ newRepo' = newRepo
          /\ newRepoExists' = newRepoExists
          /\ worktree' = worktree]_vars

\* C22 happens: a dry run has ended with decisions written to the journal and a
\* commit passed by, and there is no new repository.
C22_Witness ==
    /\ DryRun
    /\ GenerationMode
    /\ done
    /\ Len(JournalEntries(journal)) > 0
    /\ \E i \in 1..Len(allCommits) : ~allCommits[i].NeedsRewrite
    /\ ~newRepoExists
    /\ newRepo = << >>

\* C23: a process started with -apply-changes makes no availability probe, no
\* context-size query and no generation request.
C23_ApplyFromFileUsesNoModel ==
    startup.ApplyChangesFile
    => /\ "CheckOllamaAvailability" \notin CallsMade
       /\ "GetModelContextSize" \notin CallsMade
       /\ requests = ZeroCounts

\* C23 happens: a process started with -apply-changes has applied a commit.
C23_Witness ==
    /\ startup.ApplyChangesFile
    /\ pcMain = "applyDone"
    /\ Len(newRepo) > 0

\* A new repository was created, a generation request sent or a commit applied.
Proceeded ==
    \/ "CreateNewRepository" \in CallsMade
    \/ requests # ZeroCounts
    \/ applies # ZeroCounts
    \/ Len(newRepo) > 0

\* C24: no new repository is created, no generation request is sent and no commit
\* is applied unless HEAD of the source repository is the default branch.
C24_NoProgressOffDefaultBranch ==
    Proceeded => startup.head = startup.defaultBranch

\* The commits are being processed, or one was.
Processing ==
    \/ pcWorker # "idle"
    \/ requests # ZeroCounts
    \/ applies # ZeroCounts
    \/ produced # << >>
    \/ ProcessedCommits > 0

\* The availability probe was made and succeeded, and after it the context-size
\* query was made and succeeded.
ProbedThenQueried ==
    /\ startup.ollama = "up"
    /\ startup.contextSize = "known"
    /\ \E i, j \in 1..Len(startup.calls) :
         /\ i < j
         /\ startup.calls[i] = "CheckOllamaAvailability"
         /\ startup.calls[j] = "GetModelContextSize"

\* C25: in a dry run or a direct run no commit is processed and no generation
\* request is sent unless the availability probe and, after it, the context-size
\* query have succeeded; when either has failed the process has exited and no commit
\* was processed.
C25_ProbeAndContextSizeFirst ==
    GenerationMode
    => /\ Processing => ProbedThenQueried
       /\ (startup.ollama = "down" \/ startup.contextSize = "failed")
            => (pcMain = "exited" /\ ~Processing)

\* C25 happens: a generation request was sent after the probe and the query.
C25_Witness ==
    /\ GenerationMode
    /\ requests # ZeroCounts
    /\ ProbedThenQueried

\* A step in which CreateNewRepository is called: by RunApplication outside a dry
\* run, or by ApplyChangesMode once the changes file is read.
CreateAttempted ==
    /\ pcMain' # pcMain
    /\ \/ pcMain = "create" /\ ~DryRun
       \/ pcMain = "applyStart" /\ pcMain' # "applyFailed"

\* C35: a call of CreateNewRepository whose target directory exists ends the process
\* with the directory, its files and its commits as they were; a call that creates
\* the directory leaves it without files and without commits.
C35_ExistingTargetUntouched ==
    [][CreateAttempted
       => IF newRepoExists
          THEN /\ pcMain' = "exited"
               /\ newRepoExists'
               /\ worktree' = worktree
               /\ newRepo' = newRepo
          ELSE newRepoExists' => (worktree' = {} /\ newRepo' = << >>)]_vars

\* C35 happens: a direct-mode run found the directory with a file in it, called
\* CreateNewRepository and has ended; the file is there and nothing was committed.
C35_Witness ==
    /\ ~DryRun
    /\ GenerationMode
    /\ "CreateNewRepository" \in CallsMade
    /\ pcMain = "exited"
    /\ newRepoExists
    /\ worktree = {1}
    /\ newRepo = << >>

\* A step in which the run ends on a fatal check after the creation step (the
\* repository cannot be opened, the exclude pattern does not compile, the walk
\* fails) or on the answer No at the confirmation dialog.
AbortedAtStart ==
    /\ pcMain' = "exited"
    /\ \/ pcMain \in { "walk", "load" }
       \/ pcMain = "applyStart" /\ ~newRepoExists

\* C37: a run that ends on a fatal startup check or on the answer No has not
\* created the directory of the new repository: outside a dry run, which never
\* creates it, the directory does not exist when such a run has ended.
C37_AbortLeavesNoDirectory ==
    [][AbortedAtStart => (newRepoExists' => (DryRun /\ GenerationMode))]_vars

\* The main goroutine blocks in select {} for good: no case of it reads sigs.
BlockedForGood == pcMain = "waiting"

\* C38: every signal delivered once the listener is installed ends the process, so
\* a signal is never left in the channel with the main goroutine blocked for good:
\* in that state no step of the program reads the signal and the process never ends.
C38_SignalNeverLeftUnread ==
    ~(sigs /\ BlockedForGood)

\* C39: the list the interrupt handler serializes is a prefix of the worker's
\* decision sequence, whatever the worker does to the list meanwhile: its elements
\* are the first decisions in their order, and the handler does not panic.
C39_FlushIsPrefixOfDecisions ==
    /\ memory.pcMain # "panicked"
    /\ Len(memory.data) <= memory.decisions
    /\ \A i \in 1..Len(memory.data) : memory.data[i] = i

\* ---- the loop body for a needs-rewrite commit ------------------------------------------

\* The commit was serialized for the normal path, and the token estimates of the
\* system prompt, the user preamble, the payload and the schema (a quarter of the
\* byte length each) plus a quarter of the context window exceed the context window.
OverBudget ==
    /\ generation.payloadBytes > 0
    /\ (FixedBytes.system \div 4) + (FixedBytes.preamble \div 4)
         + (generation.payloadBytes \div 4) + (FixedBytes.schema \div 4)
         + (generation.contextSize \div 4) > generation.contextSize

RECURSIVE SplitLines(_)
SplitLines(text) ==
    IF Len(text) = 0 THEN << >>
    ELSE IF \A i \in 1..Len(text) : text[i] # "\n" THEN << text >>
    ELSE LET k == CHOOSE i \in 1..Len(text) :
                    text[i] = "\n" /\ \A j \in 1..(i - 1) : text[j] # "\n"
         IN  << SubSeq(text, 1, k - 1) >>
             \o (IF k = Len(text) THEN << << >> >>
                 ELSE SplitLines(SubSeq(text, k + 1, Len(text))))

\* The six types of the vocabulary.
ConventionalTypes == { "feat", "fix", "chore", "docs", "refactor", "perf" }

\* C27: the rewritten message has one line per response entry whose type is one of
\* the six, in response order, the line being "<type>: <description> (<affected_app>)",
\* and no other line.
C27_MessageLinesAreKeptEntries ==
    (generation.pc = "decided" /\ generation.path = "normal")
    => LET kept == SelectSeq(generation.messages,
                             LAMBDA msg : msg.type \in ConventionalTypes)
       IN  SplitLines(generation.newMessage)
             = [ i \in 1..Len(kept) |->
                   << kept[i].type, ": ", kept[i].description, " (",
                      kept[i].affected_app, ")" >> ]

\* C28: a commit with more files than the limit is never sent on the normal path:
\* without -summarize-oversized it is skipped with an error log, without a request
\* and without a decision; with the flag it takes the simplified path; a commit
\* with exactly the limit takes the normal path.
C28_OversizedNeverOnNormalPath ==
    LET g == generation
        n == Len(g.Files)
    IN  g.pc # "commit"
        => /\ n > g.MaxFilesPerCommit
                => /\ g.path # "normal"
                   /\ g.normalRequests = 0
                   /\ IF SummarizeOversizedCommits
                      THEN g.path = "simplified"
                      ELSE /\ g.path = "skip"
                           /\ g.pc = "skipped"
                           /\ g.errorsLogged = 1
                           /\ g.simplifiedRequests = 0
                           /\ g.decisions = 0
           /\ n = g.MaxFilesPerCommit
                => /\ g.path = "normal"
                   /\ g.simplifiedRequests = 0

\* C28 happens: a commit with more files than the limit, after a file was excluded,
\* got its decision on the simplified path.
C28_Witness ==
    /\ Len(generation.Files) > generation.MaxFilesPerCommit
    /\ Len(generation.Files) < MaxFiles
    /\ generation.excludePattern
    /\ SummarizeOversizedCommits
    /\ generation.path = "simplified"
    /\ generation.pc = "decided"
    /\ generation.simplifiedRequests = 1
    /\ generation.normalRequests = 0

\* The message built from the response was put into a decision of the journal list
\* (dry run) or handed to ApplyCommitToNewRepo (otherwise).
MessageUsed ==
    /\ generation.path = "normal"
    /\ \/ generation.pc = "decided"
       \/ generation.err = "apply failed"

\* C40: a rewritten message that is journaled or handed to the replay is not empty,
\* whatever the response: also when no entry of it has an allowed type or it has
\* no entry at all.
C40_RewrittenMessageNonEmpty ==
    MessageUsed => generation.newMessage # << >>

\* ---- RewordCommit ------------------------------------------------------------------------

\* The positions of a command among the commands of the call.
CommandAt(c) == { i \in 1..Len(reword.commands) : reword.commands[i] = c }

\* The ways through the phases of a call, and their beginnings.
PhasePaths ==
    { << "Idle", "AbortingPriorState", "Rewriting", "Completed" >>,
      << "Idle", "AbortingPriorState", "Rewriting", "Failed" >>,
      << "Idle", "AbortingPriorState", "Failed" >>,
      << "Idle", "Failed" >> }

\* C29: a call of RewordCommit goes from Idle through AbortingPriorState and
\* Rewriting to Completed or Failed, failing from any phase; git rebase -i is run at
\* most once, only after git rebase --abort, and never when clearing the prior
\* state failed otherwise than with "No rebase in progress?".
C29_AbortBeforeSingleRewrite ==
    /\ \E p \in PhasePaths : IsPrefix(reword.phases, p)
    /\ Cardinality(CommandAt("git rebase -i")) <= 1
    /\ \A i \in CommandAt("git rebase -i") :
         \E j \in CommandAt("git rebase --abort") : j < i
    /\ reword.err \in { "failed to clear rebase state",
                        "failed to remove rebase-merge directory" }
         => CommandAt("git rebase -i") = {}

\* C29 happens: the directory of an earlier rebase was removed, git rebase --abort
\* was run, and then the rewrite, to its end.
C29_Witness ==
    /\ reword.phases = << "Idle", "AbortingPriorState", "Rewriting", "Completed" >>
    /\ reword.commands = << "RemoveAll rebase-merge", "git rebase --abort",
                            "git rebase -i" >>
    /\ reword.priorState = "none"
    /\ reword.todo # << >>

C31_RebaseFailureIsFinal ==
    /\ reword.output # "none"
         => /\ reword.pc = "failed"
            /\ reword.phases = << "Idle", "AbortingPriorState", "Rewriting", "Failed" >>
            /\ reword.err = "rebase failed"
            /\ reword.detail = reword.output
            /\ Cardinality(CommandAt("git rebase -i")) = 1
            /\ reword.commands[Len(reword.commands)] = "git rebase -i"
    /\ reword.err = "rebase failed" => reword.output \in RebaseOutputs

\* C31 happens: the rewrite has failed on a commit it could not apply and has left
\* its state in the repository, which had none when the rewrite began.
C31_Witness ==
    /\ reword.pc = "failed"
    /\ reword.err = "rebase failed"
    /\ reword.detail = "could not apply"
    /\ reword.priorState = "rebase-merge"
    /\ reword.commands = << "git rebase --abort", "git rebase -i" >>
    /\ reword.transformed

\* ---- end to end -------------------------------------------------------------------------

\* C18: when apply-from-file has ended after dry runs and every apply succeeded, the
\* new repository has one commit per commit of the history, in order, each with the
\* rewritten message of every journal entry for its id, or with the original message
\* when the journal has no entry for it.
C18_ReplayMatchesJournal ==
    (ApplyChangesOver /\ ProcessedCommits = Len(allCommits))
    => /\ Len(newRepo) = Len(allCommits)
       /\ \A i \in 1..Len(newRepo) :
            /\ newRepo[i].CommitID = allCommits[i].CommitID
            /\ \A e \in Range(changes) :
                 e.CommitID = newRepo[i].CommitID => newRepo[i].Message = e.RewrittenMsg
            /\ (newRepo[i].CommitID \notin Ids(changes)) => newRepo[i].Message = 0

====
